---- MODULE Spec2Model ----
(***************************************************************************)
(* Model of the strigil scraping pipeline (src/strigil): the crawl         *)
(* controller of pipeline.py in its sequential and its parallel mode, the  *)
(* asset stage of a page scrape, and Fetcher.fetch_binary.                 *)
(***************************************************************************)
EXTENDS Integers, Sequences, FiniteSets, TLC

(***************************************************************************)
(* Bounds of the model.                                                    *)
(***************************************************************************)
MaxDepthCap == 2
MaxWorkers == 3
MaxAssetWorkers == 2
MaxRuns == 2
MaxCalls == 2
MaxIterations == 3
MaxSeeds == 2
MaxRobotCalls == 3
MaxLarge == 11
MaxOther == 11
MaxRequested == 9
MaxImages == 2
MaxSource == 2
MaxRefCalls == 3
MaxThreads == 2
MaxItems == 5
MaxProgItems == 3
MaxSegLen == 2
MaxSegments == 3

(***************************************************************************)
(* URLs of the modelled sites.  urlparse(url) is modelled by the tables    *)
(* netloc, Scheme and IsAssetPath.                                         *)
(***************************************************************************)
U0 == "http://site.test/"
UA == "http://site.test/a"
UB == "http://site.test/b"
UX == "http://site.test/a/x"
UO == "http://other.test/"
UP == "http://site.test/doc.pdf"
UF == "ftp://site.test/f"

PageURLs == {U0, UA, UB, UX, UO}
URLs == PageURLs \cup {UP, UF}

netloc(u) == IF u = UO THEN "other.test" ELSE "site.test"

Scheme(u) == IF u = UF THEN "ftp" ELSE "http"

IsAssetPath(u) == u = UP

NoAnchors == [u \in URLs |-> << >>]

\* The example of the specification: / -> {/a, /b}, /a -> {/a/x}.
SiteTree == [NoAnchors EXCEPT ![U0] = <<UA, UB>>, ![UA] = <<UX>>]

\* Link cycles, a page linking to itself, a repeated anchor, and two pages
\* linking to the same page: a URL is queued twice.
SiteCycle == [NoAnchors EXCEPT ![U0] = <<U0, UA, UA, UB>>,
                               ![UA] = <<U0, UX, UB, UA>>,
                               ![UB] = <<UX, UA>>, ![UX] = <<U0, UB>>]

\* Links to another host, to an asset and to a non-http scheme.
SiteCross == [NoAnchors EXCEPT ![U0] = <<UO, UP, UF, UA>>, ![UO] = <<UB, U0>>,
                               ![UA] = <<UO>>]

\* The seed links only to another host.
SiteAway == [NoAnchors EXCEPT ![U0] = <<UO>>, ![UO] = <<UA, U0>>, ![UA] = <<UX>>]

Sites == {SiteTree, SiteCycle, SiteCross, SiteAway}

\* The environments of a run: the URLs robots.txt disallows and the URLs whose
\* page fetch raises.
Envs == {[dis |-> {}, fail |-> {}], [dis |-> {UA}, fail |-> {UB}],
         [dis |-> {U0}, fail |-> {}], [dis |-> {}, fail |-> {U0}]}

None == [url |-> "None", depth |-> -1]

NoOwner == 0

VARIABLES
    site,               \* anchors of every page, in document order
    max_depth,          \* args.max_depth
    same_domain_only,   \* args.same_domain_only
    workers,            \* worker count; 1 selects the sequential crawl
    disallow,           \* URLs robots.txt disallows
    failing,            \* URLs whose fetch_html raises
    ctl,                \* main thread: "crawl", "returned", "finished"
    same_dom,           \* domain policy of the current run_crawl
    retried_cross_domain,
    q,                  \* sequential frontier (deque)
    work_queue,         \* parallel frontier (Queue)
    seen,               \* visit set of the current run
    pending,            \* pending counter
    seen_lock, pending_lock, manifest_lock,
    pc, witem, wlinks, wputs, wret, wman, fetcherOpen,
    disk_manifest,      \* manifest.json of every host: the keys of "urls"
    scraped,            \* log of the scrape_page calls of the current run
    sentinels_put,      \* sentinels put on work_queue in the current run
    wsent,              \* sentinels dequeued by each worker in the current run
    fb_pc,              \* fetch_binary: "idle", "loop", "returned", "raised"
    fb_url,             \* url argument
    fb_attempt,         \* attempt of the retry loop
    fb_before,          \* content of dest_path when fetch_binary was called
    fb_file,            \* content of dest_path
    fb_log,             \* URLs requested so far
    fb_wait,            \* last wait computed before a retry
    rate_limit_delay,   \* Fetcher._rate_limit_delay, in milliseconds
    fb_op,              \* the Fetcher method that is running or ran last
    fb_codes,           \* the responses the call has had so far
    fb_last,            \* the last response of the call
    fb_hdr,             \* the Retry-After header of the last response
    fb_slept,           \* duration of the last sleep before a retry, in ms
    fb_alt,             \* outcome of the request for the alternate IIIF URL
    fb_content,         \* what fetch_html returned
    fb_calls,           \* calls made on this Fetcher
    as_pc,              \* page engine: "idle", "build", "run", "returned"
    as_entry,           \* "scrape_page" or "scrape_assets"
    as_workers,         \* asset_workers (scrape_page), workers (scrape_assets)
    use_browser,        \* use_browser of scrape_assets
    as_assets,          \* PDFs and images found on the page, in order
    tasks,              \* the asset work list and the progress of every item
    disk,               \* content of every file of the host's output folder
    urls_map,           \* manifest["urls"]
    as_saved,           \* manifest["urls"] as last saved to manifest.json
    as_success,         \* keys whose download succeeded or had a size match
    as_run,             \* number of the scrape of this page, from 1
    as_kept,            \* manifest.json was still there when this scrape began
    as_first,           \* manifest["urls"] as the previous scrape saved it
    it_pc,              \* single-page mode: "idle", "loop", "mapped", "done", "raised"
    it_page,            \* status the server gave this iteration's page fetch
    js,                 \* args.js, the browser flag
    max_iterations,     \* max(1, args.max_iterations)
    iteration,          \* loop variable of the iteration loop
    had_403,            \* had_403
    it_log,             \* backend and outcome of every iteration so far
    m_pc,               \* cli main._run: "idle", "seed", "done", "raised", "exited"
    m_args,             \* the parsed command line
    m_urls,             \* urls: the seeds, each with what its site does
    m_i,                \* index of the seed the loop is at, from 1
    m_log,              \* what was done for every seed so far
    m_hook,             \* run_done_script was called
    m_exit,             \* exit code of the process, -1 while it runs
    robots_cache,       \* robots._robots_cache: an entry for every key or "absent"
    rb_pc,              \* can_fetch of every thread: "idle", "read", "install"
    rb_key,             \* key of the call every thread is in
    rb_rp,              \* what the thread is about to install
    rb_reads,           \* robots.txt requests made, by key
    rb_installs,        \* assignments to _robots_cache[key], by key
    rb_calls,           \* calls of can_fetch begun
    ew_work,            \* work_items handed to _effective_asset_workers
    ew_requested,       \* requested
    ew_browser,         \* use_browser
    ew_out,             \* the value returned, -1 before the call
    ew_page,            \* the parallelism scrape_page chooses, -1 before
    mp_pc,              \* map_page: "idle", "head", "filter", "done"
    mp_urls,            \* img_urls, the candidates in order
    mp_env,             \* what a HEAD of every URL answers
    min_image_size,     \* lower bound of the size filter, or NoLength
    max_image_size,     \* upper bound of the size filter, or NoLength
    mp_results,         \* results of head_one_image, in order
    mp_heads,           \* the URLs HEADed, in order
    mp_items,           \* image_items of the MapResult
    ci_pc,              \* collect_image_urls: "idle", "call", "returned"
    ci_in,              \* what the three sources yield, and limit
    ci_out,             \* the list returned
    rf_mode,            \* backend of the Fetcher: "httpx", "browser", "flaresolverr"
    page_url,           \* Fetcher._page_url, or "None"
    rf_html,            \* URL of the most recent fetch_html call, or "None"
    rf_reqs,            \* asset requests sent: method, URL, Referer header
    th_site,            \* the fan-out: "map_page", "scrape_assets", "scrape_page", "crawl"
    th_browser,         \* use_browser of the caller's Fetcher
    th_requested,       \* head_workers, workers or asset_workers
    th_n,               \* length of the work list
    th_todo,            \* items no thread has taken yet
    th_pc,              \* the calling thread: "run", "finally", "returned", "raised"
    th_state,           \* every thread: "idle", "busy", "exited"
    th_use,             \* the Fetcher a thread is inside a method of, 0 for none
    th_local,           \* the Fetcher a pool thread keeps, 0 for none
    fetchers_made,      \* Fetcher instances constructed by the fan-out
    fetchers_open,      \* those of them not yet closed
    th_raised,          \* a request of the fan-out raised
    pg_pc,              \* scrape_assets: "idle", "text", "total", "work", "returned"
    pg_text,            \* result.text: "none", "new", "on_disk", "in_map"
    pg_work,            \* len(work)
    pg_cb,              \* a progress callback was given
    pg_cache,           \* _exists._cache for the page text: "unset", "yes", "no"
    pg_done,            \* done_count[0]
    pg_events,          \* what the callback received, in order
    px_pc,              \* path_for_*: "idle", "call", "returned", "raised"
    px_netloc,          \* urlparse(page_url).netloc, a string of characters
    px_parts,           \* the path of the asset URL, split at "/"
    px_kind,            \* "pdf", "image" or "text"
    px_ct,              \* content_type handed to path_for_image
    px_exists,          \* a file or folder is at the canonical path
    px_out,             \* the path returned, as its components below out_dir
    sd_pc,              \* detect_image_schemas: "idle", "call", "returned"
    sd_url,             \* the URL of the page
    sd_html,            \* what the HTML of the page holds
    sd_results          \* the list returned

crawlVars == <<site, max_depth, same_domain_only, workers, disallow, failing,
               ctl, same_dom, retried_cross_domain, q, work_queue, seen,
               pending, seen_lock, pending_lock, manifest_lock,
               pc, witem, wlinks, wputs, wret, wman, fetcherOpen,
               disk_manifest, scraped, sentinels_put, wsent>>

fetchVars == <<fb_pc, fb_url, fb_attempt, fb_before, fb_file, fb_log, fb_wait,
               rate_limit_delay, fb_op, fb_codes, fb_last, fb_hdr, fb_slept,
               fb_alt, fb_content, fb_calls>>

assetVars == <<as_pc, as_entry, as_workers, use_browser, as_assets, tasks, disk,
               urls_map, as_saved, as_success, as_run, as_kept, as_first>>

iterVars == <<it_pc, it_page, js, max_iterations, iteration, had_403, it_log>>

mainVars == <<m_pc, m_args, m_urls, m_i, m_log, m_hook, m_exit>>

robotsVars == <<robots_cache, rb_pc, rb_key, rb_rp, rb_reads, rb_installs, rb_calls>>

workerVars27 == <<ew_work, ew_requested, ew_browser, ew_out, ew_page>>

mapVars == <<mp_pc, mp_urls, mp_env, min_image_size, max_image_size, mp_results,
             mp_heads, mp_items>>

collectVars == <<ci_pc, ci_in, ci_out>>

refVars == <<rf_mode, page_url, rf_html, rf_reqs>>

ownVars == <<th_site, th_browser, th_requested, th_n, th_todo, th_pc, th_state,
             th_use, th_local, fetchers_made, fetchers_open, th_raised>>

progVars == <<pg_pc, pg_text, pg_work, pg_cb, pg_cache, pg_done, pg_events>>

pathVars == <<px_pc, px_netloc, px_parts, px_kind, px_ct, px_exists, px_out>>

schemaVars == <<sd_pc, sd_url, sd_html, sd_results>>

tailVars == <<ownVars, progVars, pathVars, schemaVars>>

extraVars == <<mainVars, robotsVars, workerVars27, mapVars, collectVars, refVars,
               tailVars>>

oldVars == <<crawlVars, fetchVars, assetVars, iterVars>>

vars == <<oldVars, extraVars>>

Workers == 1..MaxWorkers

Pool == 1..workers

Hosts == {"site.test", "other.test"}

start_url == U0

start_domain == netloc(start_url)

(***************************************************************************)
(* Pure helpers.                                                           *)
(***************************************************************************)
RECURSIVE Dedupe(_, _)
Dedupe(s, got) ==
    IF s = << >> THEN << >>
    ELSE IF Head(s) \in got THEN Dedupe(Tail(s), got)
         ELSE <<Head(s)>> \o Dedupe(Tail(s), got \cup {Head(s)})

_resolve_urls(anchors) == Dedupe(anchors, {})

\* same_domain is the filter argument: None (no filter) or a host name.
NoFilter == "None"

find_page_links(base_url, same_domain) ==
    LET base_domain == netloc(base_url)
        keep(u) == /\ Scheme(u) \in {"http", "https"}
                   /\ ~IsAssetPath(u)
                   /\ (same_domain # NoFilter => netloc(u) = base_domain)
    IN  SelectSeq(_resolve_urls(site[base_url]), keep)

\* Mutant of can_fetch: the gate allows every URL.
can_fetch_always(url) == TRUE

can_fetch(url) == url \notin disallow

link_filter == IF same_dom THEN start_domain ELSE NoFilter

Range(s) == {s[i] : i \in 1..Len(s)}

ScrapedURLs == {scraped[i].url : i \in 1..Len(scraped)}

(***************************************************************************)
(* Start of one run_crawl: the state after the locals are set up and, in   *)
(* parallel mode, after the seed was put, pending set to 1 and every       *)
(* worker has constructed its Fetcher (which touches no shared state).     *)
(***************************************************************************)
RunStart(sd) ==
    /\ same_dom' = sd
    /\ seen' = {}
    /\ scraped' = << >>
    /\ sentinels_put' = 0
    /\ seen_lock' = NoOwner
    /\ pending_lock' = NoOwner
    /\ manifest_lock' = NoOwner
    /\ witem' = [w \in Workers |-> None]
    /\ wlinks' = [w \in Workers |-> << >>]
    /\ wputs' = [w \in Workers |-> 0]
    /\ wret' = [w \in Workers |-> "get"]
    /\ wman' = [w \in Workers |-> {}]
    /\ fetcherOpen' = [w \in Workers |-> w <= workers /\ workers > 1]
    /\ wsent' = [w \in Workers |-> 0]
    /\ IF workers > 1
       THEN /\ q' = << >>
            /\ work_queue' = <<[url |-> start_url, depth |-> 0]>>
            /\ pending' = 1
            /\ pc' = [w \in Workers |-> IF w <= workers THEN "get" ELSE "idle"]
       ELSE /\ q' = <<[url |-> start_url, depth |-> 0]>>
            /\ work_queue' = << >>
            /\ pending' = 0
            /\ pc' = [w \in Workers |-> "idle"]

(***************************************************************************)
(* Assets of a page and the files of the host's output folder.             *)
(***************************************************************************)
FPDF == "http://site.test/a.pdf"
ITHUMB == "http://site.test/img-thumb.jpg"
IMG == "http://site.test/img.jpg"
IB == "http://site.test/b/img.jpg"
IC == "http://site.test/c/img.jpg"

\* An image URL without a path: <img src="http://stats.test/?e=1">.
IPX == "http://stats.test/?e=1"

AssetKeys == {FPDF, ITHUMB, IB, IC, IPX}

P_PDF == "pdfs/a.pdf"
P_PDF_1 == "pdfs/a_1.pdf"
P_THUMB == "images/img-thumb.jpg"
P_IMG == "images/img.jpg"
P_IMG_1 == "images/img_1.jpg"
P_IMG_2 == "images/img_2.jpg"

Paths == {P_PDF, P_PDF_1, P_THUMB, P_IMG, P_IMG_1, P_IMG_2}

NoPath == "None"

Absent == [st |-> "absent", src |-> "None"]

OldFile == [st |-> "old", src |-> "None"]

EmptyDisk == [p \in Paths |-> Absent]

NoEntries == [k \in AssetKeys |-> NoPath]

PdfAsset == [key |-> FPDF, ct |-> "application/pdf"]

ThumbImage == [key |-> ITHUMB, ct |-> "image"]

OtherImage == [key |-> IB, ct |-> "image"]

ThirdImage == [key |-> IC, ct |-> "image"]

PixelImage == [key |-> IPX, ct |-> "image"]

\* The asset lists of the modelled pages: PDFs first, then images.
PageAssets == {<<PdfAsset>>, <<ThumbImage>>, <<PdfAsset, ThumbImage>>,
               <<ThumbImage, OtherImage>>, <<OtherImage, ThirdImage>>,
               <<PdfAsset, OtherImage, ThumbImage>>,
               <<PixelImage, OtherImage>>}

\* Files left in the output folder by an earlier run.
PriorDisks == {EmptyDisk, [EmptyDisk EXCEPT ![P_IMG] = OldFile],
               [EmptyDisk EXCEPT ![P_IMG] = OldFile, ![P_PDF] = OldFile],
               [EmptyDisk EXCEPT ![P_IMG] = OldFile, ![P_IMG_1] = OldFile,
                                 ![P_THUMB] = OldFile]}

AssetIdle ==
    /\ as_pc = "idle"
    /\ as_entry = "scrape_page"
    /\ as_workers = 1
    /\ use_browser = FALSE
    /\ as_assets = << >>
    /\ tasks = << >>
    /\ disk = EmptyDisk
    /\ urls_map = NoEntries
    /\ as_saved = NoEntries
    /\ as_success = {}
    /\ as_run = 1
    /\ as_kept = FALSE
    /\ as_first = NoEntries

NoArgs == [crawl |-> FALSE, js |-> FALSE, workers |-> 1, no_robots |-> FALSE,
           done_script |-> FALSE]

MainIdle ==
    /\ m_pc = "idle"
    /\ m_args = NoArgs
    /\ m_urls = << >>
    /\ m_i = 1
    /\ m_log = << >>
    /\ m_hook = FALSE
    /\ m_exit = -1

RobotThreads == {1, 2}

_robots_key(url) == <<Scheme(url), netloc(url)>>

RobotKeys == {_robots_key(u) : u \in PageURLs}

RobotsIdle ==
    /\ robots_cache = [k \in RobotKeys |-> "absent"]
    /\ rb_pc = [t \in RobotThreads |-> "idle"]
    /\ rb_key = [t \in RobotThreads |-> _robots_key(U0)]
    /\ rb_rp = [t \in RobotThreads |-> "absent"]
    /\ rb_reads = [k \in RobotKeys |-> 0]
    /\ rb_installs = [k \in RobotKeys |-> 0]
    /\ rb_calls = 0

EwIdle ==
    /\ ew_work = << >>
    /\ ew_requested = 1
    /\ ew_browser = FALSE
    /\ ew_out = -1
    /\ ew_page = -1

\* content_length is None; also min_image_size or max_image_size is None.
NoLength == -1

NoType == "None"

MapIdle ==
    /\ mp_pc = "idle"
    /\ mp_urls = << >>
    /\ mp_env = << >>
    /\ min_image_size = NoLength
    /\ max_image_size = NoLength
    /\ mp_results = << >>
    /\ mp_heads = << >>
    /\ mp_items = << >>

NoLimit == -2

NoSources == [cdm |-> << >>, iiif |-> << >>, html |-> << >>, manifest_ok |-> TRUE,
              limit |-> NoLimit]

CollectIdle ==
    /\ ci_pc = "idle"
    /\ ci_in = NoSources
    /\ ci_out = << >>

RefIdle ==
    /\ rf_mode = "httpx"
    /\ page_url = "None"
    /\ rf_html = "None"
    /\ rf_reqs = << >>

Threads == 0..MaxThreads

OwnIdle ==
    /\ th_site = "map_page"
    /\ th_browser = FALSE
    /\ th_requested = 1
    /\ th_n = 0
    /\ th_todo = 0
    /\ th_pc = "returned"
    /\ th_state = [t \in Threads |-> "idle"]
    /\ th_use = [t \in Threads |-> 0]
    /\ th_local = [t \in Threads |-> 0]
    /\ fetchers_made = 0
    /\ fetchers_open = {}
    /\ th_raised = FALSE

ProgIdle ==
    /\ pg_pc = "idle"
    /\ pg_text = "none"
    /\ pg_work = 0
    /\ pg_cb = FALSE
    /\ pg_cache = "unset"
    /\ pg_done = 0
    /\ pg_events = << >>

PathIdle ==
    /\ px_pc = "idle"
    /\ px_netloc = << >>
    /\ px_parts = << >>
    /\ px_kind = "pdf"
    /\ px_ct = "None"
    /\ px_exists = FALSE
    /\ px_out = << >>

SchemaIdle ==
    /\ sd_pc = "idle"
    /\ sd_url = ""
    /\ sd_html = {}
    /\ sd_results = << >>

TailIdle == OwnIdle /\ ProgIdle /\ PathIdle /\ SchemaIdle

ExtraIdle ==
    MainIdle /\ RobotsIdle /\ EwIdle /\ MapIdle /\ CollectIdle /\ RefIdle /\ TailIdle

IterIdle ==
    /\ it_pc = "idle"
    /\ it_page = 0
    /\ js = FALSE
    /\ max_iterations = 1
    /\ iteration = 0
    /\ had_403 = FALSE
    /\ it_log = << >>

FetchIdle ==
    /\ fb_pc = "idle"
    /\ fb_url = "None"
    /\ fb_attempt = 0
    /\ fb_before = "absent"
    /\ fb_file = "absent"
    /\ fb_log = << >>
    /\ fb_wait = 0
    /\ rate_limit_delay = 0
    /\ fb_op = "None"
    /\ fb_codes = {}
    /\ fb_last = [kind |-> "None", code |-> 0]
    /\ fb_hdr = "None"
    /\ fb_slept = 0
    /\ fb_alt = "None"
    /\ fb_content = "None"
    /\ fb_calls = 0

Init ==
    /\ FetchIdle
    /\ AssetIdle
    /\ IterIdle
    /\ ExtraIdle
    /\ site \in Sites
    /\ max_depth \in 0..MaxDepthCap
    /\ same_domain_only \in BOOLEAN
    /\ workers \in 1..MaxWorkers
    /\ \E e \in Envs : disallow = e.dis /\ failing = e.fail
    /\ ctl = "crawl"
    /\ same_dom = same_domain_only
    /\ retried_cross_domain = FALSE
    /\ seen = {}
    /\ scraped = << >>
    /\ sentinels_put = 0
    /\ seen_lock = NoOwner
    /\ pending_lock = NoOwner
    /\ manifest_lock = NoOwner
    /\ witem = [w \in Workers |-> None]
    /\ wlinks = [w \in Workers |-> << >>]
    /\ wputs = [w \in Workers |-> 0]
    /\ wret = [w \in Workers |-> "get"]
    /\ wman = [w \in Workers |-> {}]
    /\ fetcherOpen = [w \in Workers |-> w <= workers /\ workers > 1]
    /\ wsent = [w \in Workers |-> 0]
    /\ disk_manifest = [h \in Hosts |-> {}]
    /\ IF workers > 1
       THEN /\ q = << >>
            /\ work_queue = <<[url |-> start_url, depth |-> 0]>>
            /\ pending = 1
            /\ pc = [w \in Workers |-> IF w <= workers THEN "get" ELSE "idle"]
       ELSE /\ q = <<[url |-> start_url, depth |-> 0]>>
            /\ work_queue = << >>
            /\ pending = 0
            /\ pc = [w \in Workers |-> "idle"]

config == <<site, max_depth, same_domain_only, workers, disallow, failing>>

\* The state of the page engine and of the fetcher, which the crawl
\* controller model leaves alone.
others == <<fetchVars, assetVars, iterVars, extraVars>>

workerVars == <<pc, witem, wlinks, wputs, wret, wman, fetcherOpen, wsent>>

lockVars == <<seen_lock, pending_lock, manifest_lock>>

(***************************************************************************)
(* Sequential crawl: run_single_or_sequential_crawl.run_crawl.             *)
(***************************************************************************)
\* Mutants of SeqSkip: the visit-set test left out; the depth test off by one.
SeqSkip_noSeen(url, depth) == depth > max_depth

SeqSkip_depthOff(url, depth) == url \in seen \/ depth > max_depth + 1

SeqSkip(url, depth) == url \in seen \/ depth > max_depth

SeqOffDomain(url) == same_dom /\ netloc(url) # start_domain

\* Mutant of SeqNewLinks: links are enqueued at the depth of their page.
SeqNewLinks_sameDepth(links, depth, sn) ==
    LET ok(l) == l \notin sn /\ (~same_dom \/ netloc(l) = start_domain)
        kept == SelectSeq(links, ok)
    IN  [i \in 1..Len(kept) |-> [url |-> kept[i], depth |-> depth]]

SeqNewLinks(links, depth, sn) ==
    LET ok(l) == l \notin sn /\ (~same_dom \/ netloc(l) = start_domain)
        kept == SelectSeq(links, ok)
    IN  [i \in 1..Len(kept) |-> [url |-> kept[i], depth |-> depth + 1]]

\* Mutant of SeqStep: an entry that is skipped goes to the back of the queue.
SeqStep_requeue ==
    /\ workers = 1
    /\ ctl = "crawl"
    /\ q # << >>
    /\ LET url == Head(q).url
           depth == Head(q).depth
       IN  IF SeqSkip(url, depth) \/ SeqOffDomain(url) \/ ~can_fetch(url)
           THEN /\ q' = Append(Tail(q), Head(q))
                /\ UNCHANGED <<seen, scraped, disk_manifest>>
           ELSE /\ seen' = seen \cup {url}
                /\ scraped' = Append(scraped, [url |-> url, depth |-> depth])
                /\ IF url \in failing
                   THEN /\ q' = Tail(q)
                        /\ UNCHANGED disk_manifest
                   ELSE /\ q' = Tail(q) \o SeqNewLinks(find_page_links(url, link_filter), depth, seen')
                        /\ disk_manifest' = [disk_manifest EXCEPT
                               ![netloc(url)] = @ \cup {url}]
    /\ UNCHANGED <<others, config, ctl, same_dom, retried_cross_domain, work_queue,
                   pending, lockVars, workerVars, sentinels_put>>

\* One iteration of "while q": dequeue, checks, scrape_page, enqueue.
SeqStep ==
    /\ workers = 1
    /\ ctl = "crawl"
    /\ q # << >>
    /\ LET url == Head(q).url
           depth == Head(q).depth
       IN  IF SeqSkip(url, depth) \/ SeqOffDomain(url) \/ ~can_fetch(url)
           THEN /\ q' = Tail(q)
                /\ UNCHANGED <<seen, scraped, disk_manifest>>
           ELSE /\ seen' = seen \cup {url}
                /\ scraped' = Append(scraped, [url |-> url, depth |-> depth])
                /\ IF url \in failing
                   THEN /\ q' = Tail(q)
                        /\ UNCHANGED disk_manifest
                   ELSE /\ q' = Tail(q) \o SeqNewLinks(find_page_links(url, link_filter), depth, seen')
                        /\ disk_manifest' = [disk_manifest EXCEPT
                               ![netloc(url)] = @ \cup {url}]
    /\ UNCHANGED <<others, config, ctl, same_dom, retried_cross_domain, work_queue,
                   pending, lockVars, workerVars, sentinels_put>>

\* "while q" ends: run_crawl returns seen.
SeqReturn ==
    /\ workers = 1
    /\ ctl = "crawl"
    /\ q = << >>
    /\ ctl' = "returned"
    /\ UNCHANGED <<others, config, same_dom, retried_cross_domain, q, work_queue, seen,
                   pending, lockVars, workerVars, disk_manifest, scraped,
                   sentinels_put>>

(***************************************************************************)
(* After run_crawl: the cross-domain retry of both modes.                  *)
(***************************************************************************)
\* Mutant of NeedsRetry: the flag that a retry was made is not consulted.
NeedsRetry_again == same_domain_only /\ Cardinality(seen) <= 1

NeedsRetry == same_domain_only /\ ~retried_cross_domain /\ Cardinality(seen) <= 1

Retry ==
    /\ ctl = "returned"
    /\ NeedsRetry
    /\ ctl' = "crawl"
    /\ retried_cross_domain' = TRUE
    /\ RunStart(FALSE)
    /\ UNCHANGED <<others, config, disk_manifest>>

Finish ==
    /\ ctl = "returned"
    /\ ~NeedsRetry
    /\ ctl' = "finished"
    /\ UNCHANGED <<others, config, same_dom, retried_cross_domain, q, work_queue, seen,
                   pending, lockVars, workerVars, disk_manifest, scraped,
                   sentinels_put>>

(***************************************************************************)
(* Parallel crawl: crawl_parallel.run_crawl.worker, one action per step    *)
(* between two points where another thread can run.                        *)
(***************************************************************************)
parShared == <<others, config, ctl, same_dom, retried_cross_domain, q>>

Running(w) == workers > 1 /\ ctl = "crawl" /\ w \in Pool

Goto(w, l) == pc' = [pc EXCEPT ![w] = l]

\* item = work_queue.get(); the sentinel test and the depth test.
WGet(w) ==
    /\ Running(w) /\ pc[w] = "get"
    /\ work_queue # << >>
    /\ work_queue' = Tail(work_queue)
    /\ LET item == Head(work_queue)
       IN  IF item = None
           THEN /\ wsent' = [wsent EXCEPT ![w] = @ + 1]
                /\ Goto(w, "close")
                /\ UNCHANGED <<witem, wret>>
           ELSE /\ witem' = [witem EXCEPT ![w] = item]
                /\ wret' = [wret EXCEPT ![w] = "get"]
                /\ Goto(w, IF item.depth > max_depth THEN "dec_acq" ELSE "seen_acq")
                /\ UNCHANGED wsent
    /\ UNCHANGED <<parShared, seen, pending, lockVars, wlinks, wputs, wman, fetcherOpen, disk_manifest, scraped, sentinels_put>>

\* finally: fetcher.close(); the worker returns.
WClose(w) ==
    /\ Running(w) /\ pc[w] = "close"
    /\ fetcherOpen' = [fetcherOpen EXCEPT ![w] = FALSE]
    /\ Goto(w, "done")
    /\ UNCHANGED <<parShared, work_queue, seen, pending, lockVars, witem, wlinks,
                   wputs, wret, wman, disk_manifest, scraped,
                   sentinels_put, wsent>>

\* with pending_lock: (the three places that decrement pending)
WDecAcquire(w) ==
    /\ Running(w) /\ pc[w] = "dec_acq"
    /\ pending_lock = NoOwner
    /\ pending_lock' = w
    /\ Goto(w, "dec")
    /\ UNCHANGED <<parShared, work_queue, seen, pending, seen_lock, manifest_lock,
                   witem, wlinks, wputs, wret, wman, fetcherOpen,
                   disk_manifest, scraped, sentinels_put, wsent>>

\* Mutant of SentinelCount: one sentinel too few.
SentinelCount_short == workers - 1

SentinelCount == workers

\* pending -= 1; if pending == 0: for _ in range(workers): ...
WDec(w) ==
    /\ Running(w) /\ pc[w] = "dec"
    /\ pending' = pending - 1
    /\ wputs' = [wputs EXCEPT ![w] = IF pending' = 0 THEN SentinelCount ELSE 0]
    /\ Goto(w, "put")
    /\ UNCHANGED <<parShared, work_queue, seen, lockVars, witem, wlinks, wret,
                   wman, fetcherOpen, disk_manifest, scraped,
                   sentinels_put, wsent>>

\* work_queue.put(None), once per loop round; then the lock is released.
WPutSentinel(w) ==
    /\ Running(w) /\ pc[w] = "put"
    /\ IF wputs[w] > 0
       THEN /\ work_queue' = Append(work_queue, None)
            /\ wputs' = [wputs EXCEPT ![w] = @ - 1]
            /\ sentinels_put' = sentinels_put + 1
            /\ UNCHANGED <<pc, pending_lock>>
       ELSE /\ pending_lock' = NoOwner
            /\ Goto(w, IF seen_lock = w THEN "seen_rel" ELSE wret[w])
            /\ UNCHANGED <<work_queue, wputs, sentinels_put>>
    /\ UNCHANGED <<parShared, seen, pending, seen_lock, manifest_lock, witem,
                   wlinks, wret, wman, fetcherOpen, disk_manifest, scraped,
                   wsent>>

\* with seen_lock:
WSeenAcquire(w) ==
    /\ Running(w) /\ pc[w] = "seen_acq"
    /\ seen_lock = NoOwner
    /\ seen_lock' = w
    /\ Goto(w, "seen_chk")
    /\ UNCHANGED <<parShared, work_queue, seen, pending, pending_lock,
                   manifest_lock, witem, wlinks, wputs, wret, wman,
                   fetcherOpen, disk_manifest, scraped, sentinels_put, wsent>>

WorkerSkip(url) == url \in seen

\* if url in seen: (decrement, continue) else seen.add(url)
WSeenCheck(w) ==
    /\ Running(w) /\ pc[w] = "seen_chk"
    /\ IF WorkerSkip(witem[w].url)
       THEN /\ Goto(w, "dec_acq")
            /\ wret' = [wret EXCEPT ![w] = "get"]
            /\ UNCHANGED seen
       ELSE /\ seen' = seen \cup {witem[w].url}
            /\ Goto(w, "seen_rel")
            /\ wret' = [wret EXCEPT ![w] = "process"]
    /\ UNCHANGED <<parShared, work_queue, pending, lockVars, witem, wlinks, wputs,
                   wman, fetcherOpen, disk_manifest, scraped,
                   sentinels_put, wsent>>

\* end of "with seen_lock"
WSeenRelease(w) ==
    /\ Running(w) /\ pc[w] = "seen_rel"
    /\ seen_lock' = NoOwner
    /\ Goto(w, wret[w])
    /\ UNCHANGED <<parShared, work_queue, seen, pending, pending_lock,
                   manifest_lock, witem, wlinks, wputs, wret, wman,
                   fetcherOpen, disk_manifest, scraped, sentinels_put, wsent>>

\* process_one: if not can_fetch(url): return []
WProcess(w) ==
    /\ Running(w) /\ pc[w] = "process"
    /\ IF can_fetch(witem[w].url)
       THEN /\ Goto(w, "mf_acq")
            /\ UNCHANGED <<wlinks, wret>>
       ELSE /\ wlinks' = [wlinks EXCEPT ![w] = << >>]
            /\ wret' = [wret EXCEPT ![w] = "links"]
            /\ Goto(w, "dec_acq")
    /\ UNCHANGED <<parShared, work_queue, seen, pending, lockVars, witem, wputs,
                   wman, fetcherOpen, disk_manifest, scraped,
                   sentinels_put, wsent>>

\* Mutant of WManifestAcquire: process_one does not take the lock.
WManifestAcquire_noLock(w) ==
    /\ Running(w) /\ pc[w] = "mf_acq"
    /\ Goto(w, "load")
    /\ UNCHANGED <<parShared, work_queue, seen, pending, lockVars,
                   witem, wlinks, wputs, wret, wman, fetcherOpen,
                   disk_manifest, scraped, sentinels_put, wsent>>

\* with manifest_lock:
WManifestAcquire(w) ==
    /\ Running(w) /\ pc[w] = "mf_acq"
    /\ manifest_lock = NoOwner
    /\ manifest_lock' = w
    /\ Goto(w, "load")
    /\ UNCHANGED <<parShared, work_queue, seen, pending, seen_lock, pending_lock,
                   witem, wlinks, wputs, wret, wman, fetcherOpen,
                   disk_manifest, scraped, sentinels_put, wsent>>

\* manifest = load_manifest(manifest_path(out_dir, domain))
WLoad(w) ==
    /\ Running(w) /\ pc[w] = "load"
    /\ wman' = [wman EXCEPT ![w] = disk_manifest[netloc(witem[w].url)]]
    /\ Goto(w, "scrape")
    /\ UNCHANGED <<parShared, work_queue, seen, pending, lockVars, witem, wlinks,
                   wputs, wret, fetcherOpen, disk_manifest, scraped,
                   sentinels_put, wsent>>

\* scrape_page returns: the page is recorded, the manifest saved by
\* scrape_page itself, the links of the page returned.
WScrapeOk(w) ==
    /\ Running(w) /\ pc[w] = "scrape"
    /\ witem[w].url \notin failing
    /\ scraped' = Append(scraped, witem[w])
    /\ wman' = [wman EXCEPT ![w] = @ \cup {witem[w].url}]
    /\ disk_manifest' = [disk_manifest EXCEPT ![netloc(witem[w].url)] = wman'[w]]
    /\ wlinks' = [wlinks EXCEPT ![w] = find_page_links(witem[w].url, link_filter)]
    /\ Goto(w, "save")
    /\ UNCHANGED <<parShared, work_queue, seen, pending, lockVars, witem, wputs,
                   wret, fetcherOpen, sentinels_put, wsent>>

\* Mutant of WScrapeRaise: the manifest lock is kept when scrape_page raises.
WScrapeRaise_keepLock(w) ==
    /\ Running(w) /\ pc[w] = "scrape"
    /\ witem[w].url \in failing
    /\ scraped' = Append(scraped, witem[w])
    /\ wlinks' = [wlinks EXCEPT ![w] = << >>]
    /\ wret' = [wret EXCEPT ![w] = "links"]
    /\ Goto(w, "dec_acq")
    /\ UNCHANGED <<parShared, work_queue, seen, pending, lockVars,
                   witem, wputs, wman, fetcherOpen, disk_manifest,
                   sentinels_put, wsent>>

\* scrape_page raises: except Exception: return [] leaves the with block.
WScrapeRaise(w) ==
    /\ Running(w) /\ pc[w] = "scrape"
    /\ witem[w].url \in failing
    /\ scraped' = Append(scraped, witem[w])
    /\ wlinks' = [wlinks EXCEPT ![w] = << >>]
    /\ manifest_lock' = NoOwner
    /\ wret' = [wret EXCEPT ![w] = "links"]
    /\ Goto(w, "dec_acq")
    /\ UNCHANGED <<parShared, work_queue, seen, pending, seen_lock, pending_lock,
                   witem, wputs, wman, fetcherOpen, disk_manifest,
                   sentinels_put, wsent>>

\* Mutant of WSave: the finally block of the worker, which takes
\* pending_lock, runs inside "with manifest_lock".
WSave_keepLock(w) ==
    /\ Running(w) /\ pc[w] = "save"
    /\ disk_manifest' = [disk_manifest EXCEPT ![netloc(witem[w].url)] = wman[w]]
    /\ wret' = [wret EXCEPT ![w] = "links"]
    /\ Goto(w, "dec_acq")
    /\ UNCHANGED <<parShared, work_queue, seen, pending, lockVars,
                   witem, wlinks, wputs, wman, fetcherOpen, scraped,
                   sentinels_put, wsent>>

\* save_manifest(...) and the end of "with manifest_lock"
WSave(w) ==
    /\ Running(w) /\ pc[w] = "save"
    /\ disk_manifest' = [disk_manifest EXCEPT ![netloc(witem[w].url)] = wman[w]]
    /\ manifest_lock' = NoOwner
    /\ wret' = [wret EXCEPT ![w] = "links"]
    /\ Goto(w, "dec_acq")
    /\ UNCHANGED <<parShared, work_queue, seen, pending, seen_lock, pending_lock,
                   witem, wlinks, wputs, wman, fetcherOpen, scraped,
                   sentinels_put, wsent>>

\* for link in links: the domain test of the worker.
WNextLink(w) ==
    /\ Running(w) /\ pc[w] = "links"
    /\ IF wlinks[w] = << >>
       THEN /\ Goto(w, "get")
            /\ UNCHANGED wlinks
       ELSE IF same_dom /\ netloc(Head(wlinks[w])) # start_domain
            THEN /\ wlinks' = [wlinks EXCEPT ![w] = Tail(@)]
                 /\ UNCHANGED pc
            ELSE /\ Goto(w, "lseen_acq")
                 /\ UNCHANGED wlinks
    /\ UNCHANGED <<parShared, work_queue, seen, pending, lockVars, witem, wputs,
                   wret, wman, fetcherOpen, disk_manifest, scraped,
                   sentinels_put, wsent>>

\* with seen_lock: (for a link)
WLinkSeenAcquire(w) ==
    /\ Running(w) /\ pc[w] = "lseen_acq"
    /\ seen_lock = NoOwner
    /\ seen_lock' = w
    /\ Goto(w, "lseen_chk")
    /\ UNCHANGED <<parShared, work_queue, seen, pending, pending_lock,
                   manifest_lock, witem, wlinks, wputs, wret, wman,
                   fetcherOpen, disk_manifest, scraped, sentinels_put, wsent>>

\* if link in seen: continue; seen.add(link); the lock is released.
WLinkSeenCheck(w) ==
    /\ Running(w) /\ pc[w] = "lseen_chk"
    /\ seen_lock' = NoOwner
    /\ IF Head(wlinks[w]) \in seen
       THEN /\ wlinks' = [wlinks EXCEPT ![w] = Tail(@)]
            /\ Goto(w, "links")
            /\ UNCHANGED seen
       ELSE /\ seen' = seen \cup {Head(wlinks[w])}
            /\ Goto(w, "lput")
            /\ UNCHANGED wlinks
    /\ UNCHANGED <<parShared, work_queue, pending, pending_lock, manifest_lock,
                   witem, wputs, wret, wman, fetcherOpen, disk_manifest,
                   scraped, sentinels_put, wsent>>

\* work_queue.put((link, depth + 1))
WPutLink(w) ==
    /\ Running(w) /\ pc[w] = "lput"
    /\ work_queue' = Append(work_queue,
                            [url |-> Head(wlinks[w]), depth |-> witem[w].depth + 1])
    /\ Goto(w, "inc_acq")
    /\ UNCHANGED <<parShared, seen, pending, lockVars, witem, wlinks, wputs, wret,
                   wman, fetcherOpen, disk_manifest, scraped,
                   sentinels_put, wsent>>

\* with pending_lock: (for a link)
WIncAcquire(w) ==
    /\ Running(w) /\ pc[w] = "inc_acq"
    /\ pending_lock = NoOwner
    /\ pending_lock' = w
    /\ Goto(w, "inc")
    /\ UNCHANGED <<parShared, work_queue, seen, pending, seen_lock, manifest_lock,
                   witem, wlinks, wputs, wret, wman, fetcherOpen,
                   disk_manifest, scraped, sentinels_put, wsent>>

\* pending += 1; the lock is released; next link.
WInc(w) ==
    /\ Running(w) /\ pc[w] = "inc"
    /\ pending' = pending + 1
    /\ pending_lock' = NoOwner
    /\ wlinks' = [wlinks EXCEPT ![w] = Tail(@)]
    /\ Goto(w, "links")
    /\ UNCHANGED <<parShared, work_queue, seen, seen_lock, manifest_lock, witem,
                   wputs, wret, wman, fetcherOpen, disk_manifest, scraped,
                   sentinels_put, wsent>>

Worker(w) ==
    \/ WGet(w) \/ WClose(w)
    \/ WDecAcquire(w) \/ WDec(w) \/ WPutSentinel(w)
    \/ WSeenAcquire(w) \/ WSeenCheck(w) \/ WSeenRelease(w)
    \/ WProcess(w) \/ WManifestAcquire(w) \/ WLoad(w)
    \/ WScrapeOk(w) \/ WScrapeRaise(w) \/ WSave(w)
    \/ WNextLink(w) \/ WLinkSeenAcquire(w) \/ WLinkSeenCheck(w)
    \/ WPutLink(w) \/ WIncAcquire(w) \/ WInc(w)

\* The executor block ends when every worker has returned; run_crawl
\* returns seen.
ParReturn ==
    /\ workers > 1
    /\ ctl = "crawl"
    /\ \A w \in Pool : pc[w] = "done"
    /\ ctl' = "returned"
    /\ UNCHANGED <<others, config, same_dom, retried_cross_domain, q, work_queue, seen,
                   pending, lockVars, workerVars, disk_manifest, scraped,
                   sentinels_put>>

Next ==
    \/ SeqStep
    \/ SeqReturn
    \/ \E w \in Workers : Worker(w)
    \/ ParReturn
    \/ Retry
    \/ Finish

Spec == Init /\ [][Next]_vars

(***************************************************************************)
(* Scheduling: worker threads and the main thread keep running while they  *)
(* have a step to take.                                                    *)
(***************************************************************************)
Main == SeqStep \/ SeqReturn \/ ParReturn \/ Retry \/ Finish

FairSpec ==
    /\ Init
    /\ [][Next]_vars
    /\ WF_vars(Main)
    /\ \A w \in Workers : WF_vars(Worker(w))

(***************************************************************************)
(* Properties of the crawl controller.                                     *)
(***************************************************************************)
Parallel == workers > 1

Sequential == workers = 1

\* The links of a scraped page that the run's domain policy permits.
PermittedLinks(url) ==
    {l \in Range(find_page_links(url, link_filter)) :
        same_dom => netloc(l) = start_domain}

\* C1: in parallel mode, when the run has ended and no fetch failed and
\* robots allowed everything, every permitted link of a scraped page that is
\* within the depth cap has been scraped.
C1_PermittedLinksScraped ==
    (Parallel /\ ctl = "returned" /\ failing = {} /\ disallow = {}) =>
        \A i \in 1..Len(scraped) :
            scraped[i].depth + 1 <= max_depth =>
                PermittedLinks(scraped[i].url) \subseteq ScrapedURLs

QueuedPages == {i \in 1..Len(work_queue) : work_queue[i] # None}

\* The worker holds a dequeued page it has not yet accounted for.
InFlight(w) ==
    \/ pc[w] \in {"seen_acq", "seen_chk", "seen_rel", "process", "mf_acq",
                  "load", "scrape", "save"}
    \/ pc[w] \in {"dec_acq", "dec"}

\* The worker still has a link that it is going to put on the queue.
WillEnqueue(w) ==
    \/ pc[w] \in {"lput", "inc_acq", "inc"}
    \/ /\ pc[w] \in {"dec_acq", "dec", "put", "links", "lseen_acq", "lseen_chk"}
       /\ \E l \in Range(wlinks[w]) :
              l \notin seen /\ (same_dom => netloc(l) = start_domain)

\* C2: in parallel mode, whenever pending is zero no page item is queued, no
\* page is in flight and no worker will still enqueue a link.
C2_PendingZeroNoWork ==
    (Parallel /\ ctl = "crawl" /\ pending = 0) =>
        /\ QueuedPages = {}
        /\ \A w \in Pool : ~InFlight(w) /\ ~WillEnqueue(w)

RunEnded == ctl \in {"returned", "finished"}

\* C3: every parallel crawl terminates; at most N sentinels are ever
\* enqueued, and when run_crawl has returned exactly N were enqueued and each
\* of the N workers has dequeued exactly one and exited.
C3_ParallelTerminates ==
    Parallel =>
        /\ <>(ctl = "finished")
        /\ [](sentinels_put <= workers)
        /\ [](RunEnded =>
                /\ sentinels_put = workers
                /\ \A w \in Pool : wsent[w] = 1 /\ pc[w] = "done" /\ ~fetcherOpen[w])

\* A parallel run has returned after a page with links was scraped.
C3_Witness ==
    /\ Parallel /\ ctl = "returned"
    /\ Len(scraped) = 1
    /\ \E i \in 1..Len(work_queue) : work_queue[i] # None

\* C4: within one crawl run scrape_page is invoked at most once per URL.
C4_ScrapedOnce ==
    \A i, j \in 1..Len(scraped) :
        scraped[i].url = scraped[j].url => i = j

\* A frontier entry for a URL that was already scraped is at the head of the
\* queue, in a site where two pages link to the same page.
C4_Witness ==
    /\ Sequential /\ ctl = "crawl"
    /\ q # << >>
    /\ Head(q).url \in ScrapedURLs
    /\ Head(q).depth <= max_depth
    /\ Len(scraped) >= 3

\* C5: a page is scraped only if its depth is at most the depth cap and,
\* when the run is same-domain-only, its host is the seed's host.
C5_DepthAndDomain ==
    \A i \in 1..Len(scraped) :
        /\ scraped[i].depth <= max_depth
        /\ same_dom => netloc(scraped[i].url) = start_domain

\* A same-domain run has ended that scraped a page at the depth cap whose
\* anchors lead on, on a site whose seed links to another host.
C5_Witness ==
    /\ ctl = "returned" /\ same_dom
    /\ UO \in Range(site[U0])
    /\ \E i \in 1..Len(scraped) :
          scraped[i].depth = max_depth /\ site[scraped[i].url] # << >>

RECURSIVE Reach(_)
Reach(d) ==
    IF d = 0 THEN {start_url}
    ELSE LET prev == Reach(d - 1)
         IN  prev \cup UNION {PermittedLinks(u) : u \in prev}

\* C6: a sequential run, with robots allowing and fetches succeeding, scrapes
\* exactly the pages within max_depth permitted link hops of the seed.
C6_SequentialReach ==
    (Sequential /\ ctl = "returned" /\ failing = {} /\ disallow = {}) =>
        ScrapedURLs = Reach(max_depth)

\* The example: / -> {/a, /b}, /a -> {/a/x}, depth cap 1, same host.
C6_Witness ==
    /\ Sequential /\ ctl = "returned" /\ failing = {} /\ disallow = {}
    /\ site = SiteTree /\ max_depth = 1 /\ same_dom
    /\ ScrapedURLs = {U0, UA, UB}
    /\ seen = {U0, UA, UB}

\* C7: when a run has ended the visit set is the set of URLs for which a
\* page scrape was dispatched.
C7_SeenIsDispatched ==
    ctl = "returned" =>
        /\ seen = ScrapedURLs
        /\ Cardinality(seen) = Len(scraped)

InManifestSection(w) == pc[w] \in {"load", "scrape", "save"}

\* C10: no two workers are between load_manifest and save_manifest at the
\* same time, the manifest lock is held exactly by the worker inside that
\* section (so it is free again after a scrape that raised), and the saved
\* manifest holds the entry of every page whose scrape returned.
C10_ManifestExclusive ==
    /\ \A v, w \in Pool : (InManifestSection(v) /\ InManifestSection(w)) => v = w
    /\ \A w \in Pool : InManifestSection(w) <=> manifest_lock = w
    /\ manifest_lock \in Pool \cup {NoOwner}
    /\ \A i \in 1..Len(scraped) :
          (scraped[i].url \notin failing /\ ~(\E w \in Pool : pc[w] = "save")) =>
              scraped[i].url \in disk_manifest[netloc(scraped[i].url)]

\* A page scrape raised in a worker, which left process_one and is about to
\* decrement pending; the manifest lock is free.
C10_Witness ==
    /\ Parallel /\ ctl = "crawl"
    /\ \E w \in Pool :
          /\ pc[w] = "dec_acq" /\ wret[w] = "links"
          /\ witem[w].url \in failing
          /\ can_fetch(witem[w].url)
    /\ manifest_lock = NoOwner

(***************************************************************************)
(* Fetcher.fetch_binary on the plain-HTTP backend.  One action is one      *)
(* round of the retry loop: the request, the handling of its response and, *)
(* on a retryable status, the wait before the next round.                  *)
(***************************************************************************)
MAX_TIMEOUT == 120
MAX_RETRIES == 3
MAX_RETRIES_5XX == 6
RETRY_BACKOFF == 2
BASE_WAIT_5XX == 5
DEFAULT_BINARY_TIMEOUT == 60
MIN_WAIT_429 == 30

FFULL == "http://iiif.test/image/7/full/full/0/default.jpg"
FMAX == "http://iiif.test/image/7/full/max/0/default.jpg"

FetchURLs == {FPDF, FFULL, FMAX}

\* Status codes of a response that raise_for_status turns into an error.
ErrorCodes == {403, 404, 429, 501, 502, 503}

NoHeader == "None"

\* Values of the Retry-After header: absent, a number of seconds, or text that
\* is neither a number nor a date.
RetryAfterValues == {NoHeader, "120", "soon"}

\* The None result of _parse_retry_after.
NoSeconds == -1

\* Outcomes of the request for the alternate IIIF URL.
AltOutcomes == {"ok", "broken", "status", "error"}

\* The state of the crawl controller while only the fetcher runs.
CrawlIdle ==
    /\ site = NoAnchors
    /\ max_depth = 0
    /\ same_domain_only = FALSE
    /\ workers = 1
    /\ disallow = {}
    /\ failing = {}
    /\ ctl = "finished"
    /\ same_dom = FALSE
    /\ retried_cross_domain = FALSE
    /\ q = << >>
    /\ work_queue = << >>
    /\ seen = {}
    /\ pending = 0
    /\ seen_lock = NoOwner
    /\ pending_lock = NoOwner
    /\ manifest_lock = NoOwner
    /\ pc = [w \in Workers |-> "idle"]
    /\ witem = [w \in Workers |-> None]
    /\ wlinks = [w \in Workers |-> << >>]
    /\ wputs = [w \in Workers |-> 0]
    /\ wret = [w \in Workers |-> "get"]
    /\ wman = [w \in Workers |-> {}]
    /\ fetcherOpen = [w \in Workers |-> FALSE]
    /\ disk_manifest = [h \in Hosts |-> {}]
    /\ scraped = << >>
    /\ sentinels_put = 0
    /\ wsent = [w \in Workers |-> 0]

RECURSIVE Pow(_, _)
Pow(b, n) == IF n = 0 THEN 1 ELSE b * Pow(b, n - 1)

Min(a, b) == IF a <= b THEN a ELSE b

Max(a, b) == IF a >= b THEN a ELSE b

_parse_retry_after(value) ==
    IF value = NoHeader THEN NoSeconds
    ELSE IF value = "120" THEN 120
    ELSE NoSeconds

\* Mutant of _iiif_alternate_url: the same size variant again.
_iiif_alternate_url_same(url) ==
    IF url = FFULL \/ url = FMAX THEN url ELSE "None"

_iiif_alternate_url(url) ==
    IF url = FFULL THEN FMAX
    ELSE IF url = FMAX THEN FFULL
    ELSE "None"

_is_retryable_5xx(code) == code \in {500, 502, 503, 504}

_wait_for_retry(code, attempt, retry_after_header) ==
    IF _parse_retry_after(retry_after_header) # NoSeconds
    THEN _parse_retry_after(retry_after_header)
    ELSE IF _is_retryable_5xx(code)
         THEN BASE_WAIT_5XX * Pow(RETRY_BACKOFF, attempt)
         ELSE Pow(RETRY_BACKOFF, attempt)

attempt_timeout(timeout, attempt) ==
    Min(timeout * Pow(RETRY_BACKOFF, attempt), MAX_TIMEOUT)

\* Milliseconds per second: the rate-limit floor and the sleeps are kept in
\* milliseconds so that the x0.9 decay stays exact.
MS == 1000

\* "wait = _parse_retry_after(...) or 60.0" of a rate-limit body
DEFAULT_THROTTLE_WAIT == 60

\* random.uniform(0.85, 1.15) in percent and random.uniform(0, extra_cap) in
\* milliseconds: the two ends.
Jitters == {[pct |-> 85, extra |-> 0], [pct |-> 115, extra |-> 50]}

\* _polite_sleep: the time slept, in milliseconds, for a delay in seconds.
_polite_sleep(delay, j) ==
    (IF delay > 0 THEN delay * 10 * j.pct ELSE 0) + j.extra

\* max(0.0, self._rate_limit_delay * 0.9)
Decay(floor) == Max(0, (floor * 9) \div 10)

RETRYABLE == {403, 429, 500, 502, 503, 504}

\* What a request can come back with: an error status, a 2xx page, a 2xx
\* body that indicates rate limiting, no response at all, a 2xx response
\* whose stream breaks.
StatusResp(code) == [kind |-> "status", code |-> code]

OkResp == [kind |-> "ok", code |-> 200]

ThrottledResp == [kind |-> "throttled", code |-> 200]

NoResponse == [kind |-> "reqerr", code |-> 0]

BrokenResp == [kind |-> "broken", code |-> 200]

NotYet == [kind |-> "None", code |-> 0]

LoopOps == {"fetch_html", "fetch_binary"}

OtherOps == {"fetch_bytes", "head_metadata", "spawn"}

\* The fields of a call that has just begun.
CallBegins(op, url) ==
    /\ fb_op' = op
    /\ fb_url' = url
    /\ fb_pc' = IF op \in LoopOps THEN "loop" ELSE "returned"
    /\ fb_attempt' = 0
    /\ fb_log' = << >>
    /\ fb_wait' = 0
    /\ fb_codes' = {}
    /\ fb_last' = NotYet
    /\ fb_hdr' = NoHeader
    /\ fb_slept' = 0
    /\ fb_alt' = "None"
    /\ fb_content' = "None"

FetchInit ==
    /\ CrawlIdle
    /\ AssetIdle
    /\ IterIdle
    /\ ExtraIdle
    /\ fb_pc = "loop"
    /\ fb_op \in LoopOps
    /\ fb_url \in (IF fb_op = "fetch_html" THEN {U0} ELSE FetchURLs)
    /\ fb_attempt = 0
    /\ fb_before \in (IF fb_op = "fetch_html" THEN {"absent"} ELSE {"absent", "old"})
    /\ fb_file = fb_before
    /\ fb_log = << >>
    /\ fb_wait = 0
    /\ rate_limit_delay \in {0, 60 * MS}
    /\ fb_codes = {}
    /\ fb_last = NotYet
    /\ fb_hdr = NoHeader
    /\ fb_slept = 0
    /\ fb_alt = "None"
    /\ fb_content = "None"
    /\ fb_calls = 1

\* open(dest_path, "wb") and the chunk loop, ended early or not.
StreamTo(file, whole) == IF whole THEN "complete" ELSE "partial"

\* What a response leaves in the record of the call.
Responded(resp, hdr) ==
    /\ fb_codes' = fb_codes \cup {resp}
    /\ fb_last' = resp
    /\ fb_hdr' = hdr

\* The branch "if retryable": the wait is computed, installed as the floor,
\* slept, and the loop goes on.
RetryAfterWait(wait) ==
    /\ fb_wait' = wait
    /\ rate_limit_delay' = Max(rate_limit_delay, wait * MS)
    /\ \E j \in Jitters : fb_slept' = _polite_sleep(wait, j)
    /\ fb_attempt' = fb_attempt + 1
    /\ UNCHANGED fb_pc

\* Mutant of StatusRetryOrRaise: the ceiling is not applied to the last
\* attempt, so one more request is made.
StatusRetryOrRaise_more(code, hdr) ==
    LET max_attempts == IF _is_retryable_5xx(code) THEN MAX_RETRIES_5XX
                        ELSE MAX_RETRIES
        retryable == code \in RETRYABLE /\ fb_attempt < max_attempts
        w0 == _wait_for_retry(code, fb_attempt, hdr)
        wait == IF code = 429 THEN Max(w0, MIN_WAIT_429) ELSE w0
    IN  IF retryable
        THEN RetryAfterWait(wait)
        ELSE /\ fb_pc' = "raised"
             /\ UNCHANGED <<fb_attempt, fb_wait, rate_limit_delay, fb_slept>>

\* The except clause of both loops for an error that carries a response.
StatusRetryOrRaise(code, hdr) ==
    LET max_attempts == IF _is_retryable_5xx(code) THEN MAX_RETRIES_5XX
                        ELSE MAX_RETRIES
        retryable == code \in RETRYABLE /\ fb_attempt < max_attempts - 1
        w0 == _wait_for_retry(code, fb_attempt, hdr)
        wait == IF code = 429 THEN Max(w0, MIN_WAIT_429) ELSE w0
    IN  IF retryable
        THEN RetryAfterWait(wait)
        ELSE /\ fb_pc' = "raised"
             /\ UNCHANGED <<fb_attempt, fb_wait, rate_limit_delay, fb_slept>>

fbFrame == <<crawlVars, assetVars, iterVars, extraVars, fb_op, fb_url, fb_before, fb_calls>>

(* fetch_binary, plain HTTP *)
\* Mutant of FbStreamOk: the floor decays after a successful download.
FbStreamOk_decays ==
    /\ fb_pc = "loop" /\ fb_op = "fetch_binary"
    /\ fb_log' = Append(fb_log, fb_url)
    /\ Responded(OkResp, NoHeader)
    /\ fb_file' = StreamTo(fb_file, TRUE)
    /\ fb_pc' = "returned"
    /\ rate_limit_delay' = Decay(rate_limit_delay)
    /\ UNCHANGED <<fbFrame, fb_attempt, fb_wait, fb_slept, fb_alt, fb_content>>

\* The response is 2xx and every chunk arrives: return True.
FbStreamOk ==
    /\ fb_pc = "loop" /\ fb_op = "fetch_binary"
    /\ fb_log' = Append(fb_log, fb_url)
    /\ Responded(OkResp, NoHeader)
    /\ fb_file' = StreamTo(fb_file, TRUE)
    /\ fb_pc' = "returned"
    /\ UNCHANGED <<fbFrame, fb_attempt, fb_wait, rate_limit_delay, fb_slept,
                   fb_alt, fb_content>>

\* The response is 2xx and the stream breaks after dest_path was opened: the
\* RequestError carries no response and is re-raised.
FbStreamBroken ==
    /\ fb_pc = "loop" /\ fb_op = "fetch_binary"
    /\ fb_log' = Append(fb_log, fb_url)
    /\ Responded(BrokenResp, NoHeader)
    /\ fb_file' = StreamTo(fb_file, FALSE)
    /\ fb_pc' = "raised"
    /\ UNCHANGED <<fbFrame, fb_attempt, fb_wait, rate_limit_delay, fb_slept,
                   fb_alt, fb_content>>

\* The request fails without a response (connect, timeout): re-raised.
FbRequestError ==
    /\ fb_pc = "loop" /\ fb_op = "fetch_binary"
    /\ fb_log' = Append(fb_log, fb_url)
    /\ Responded(NoResponse, NoHeader)
    /\ fb_pc' = "raised"
    /\ UNCHANGED <<fbFrame, fb_attempt, fb_file, fb_wait, rate_limit_delay,
                   fb_slept, fb_alt, fb_content>>

\* The response has an error status.
FbStatusError ==
    /\ fb_pc = "loop" /\ fb_op = "fetch_binary"
    /\ \E code \in ErrorCodes, hdr \in RetryAfterValues :
        LET alt == IF code = 501 THEN _iiif_alternate_url(fb_url) ELSE "None"
        IN  \E altOut \in (IF alt # "None" THEN AltOutcomes ELSE {"None"}) :
            /\ fb_log' = IF alt # "None" THEN fb_log \o <<fb_url, alt>>
                         ELSE Append(fb_log, fb_url)
            /\ Responded(StatusResp(code), hdr)
            /\ fb_alt' = IF alt # "None" THEN altOut ELSE fb_alt
            /\ IF alt # "None" /\ altOut = "ok"
               THEN /\ fb_file' = StreamTo(fb_file, TRUE)
                    /\ fb_pc' = "returned"
                    /\ UNCHANGED <<fb_attempt, fb_wait, rate_limit_delay, fb_slept>>
               ELSE /\ fb_file' = IF alt # "None" /\ altOut = "broken"
                                  THEN StreamTo(fb_file, FALSE) ELSE fb_file
                    /\ StatusRetryOrRaise(code, hdr)
    /\ UNCHANGED <<fbFrame, fb_content>>

(* fetch_html, plain HTTP *)
fhFrame == <<fbFrame, fb_file, fb_alt>>

\* The response is 2xx and its body is a page: on to the decay and the return.
FhOk ==
    /\ fb_pc = "loop" /\ fb_op = "fetch_html"
    /\ fb_log' = Append(fb_log, fb_url)
    /\ Responded(OkResp, NoHeader)
    /\ fb_pc' = "tail"
    /\ UNCHANGED <<fhFrame, fb_attempt, fb_wait, rate_limit_delay, fb_slept,
                   fb_content>>

\* The response is 2xx and _body_indicates_rate_limit: the floor is raised;
\* the loop goes on unless this was the last attempt.
FhThrottled ==
    /\ fb_pc = "loop" /\ fb_op = "fetch_html"
    /\ fb_log' = Append(fb_log, fb_url)
    /\ \E hdr \in RetryAfterValues :
        LET parsed == _parse_retry_after(hdr)
            wait == IF parsed = NoSeconds \/ parsed = 0
                    THEN DEFAULT_THROTTLE_WAIT ELSE parsed
        IN  /\ Responded(ThrottledResp, hdr)
            /\ IF fb_attempt < MAX_RETRIES_5XX - 1
               THEN RetryAfterWait(wait)
               ELSE /\ fb_wait' = wait
                    /\ rate_limit_delay' = Max(rate_limit_delay, wait * MS)
                    /\ fb_pc' = "tail"
                    /\ UNCHANGED <<fb_attempt, fb_slept>>
    /\ UNCHANGED <<fhFrame, fb_content>>

\* "Decay throttle after success" and the return of resp.content.
FhTail ==
    /\ fb_pc = "tail"
    /\ rate_limit_delay' = Decay(rate_limit_delay)
    /\ fb_content' = IF fb_last = ThrottledResp THEN "throttle_body" ELSE "page"
    /\ fb_pc' = "returned"
    /\ UNCHANGED <<fhFrame, fb_attempt, fb_log, fb_wait, fb_codes, fb_last,
                   fb_hdr, fb_slept>>

\* The request fails without a response: re-raised.
FhRequestError ==
    /\ fb_pc = "loop" /\ fb_op = "fetch_html"
    /\ fb_log' = Append(fb_log, fb_url)
    /\ Responded(NoResponse, NoHeader)
    /\ fb_pc' = "raised"
    /\ UNCHANGED <<fhFrame, fb_attempt, fb_wait, rate_limit_delay, fb_slept,
                   fb_content>>

\* The response has an error status.
FhStatusError ==
    /\ fb_pc = "loop" /\ fb_op = "fetch_html"
    /\ fb_log' = Append(fb_log, fb_url)
    /\ \E code \in ErrorCodes, hdr \in RetryAfterValues :
          /\ Responded(StatusResp(code), hdr)
          /\ StatusRetryOrRaise(code, hdr)
    /\ UNCHANGED <<fhFrame, fb_content>>

(* The next call on the same Fetcher *)
\* fetch_html or fetch_binary is called again.
FetcherCall ==
    /\ fb_pc \in {"returned", "raised"}
    /\ fb_calls < MaxCalls
    /\ \E op \in LoopOps :
        \E url \in (IF op = "fetch_html" THEN {U0} ELSE FetchURLs) :
            CallBegins(op, url)
    /\ fb_before' = fb_file
    /\ fb_calls' = fb_calls + 1
    /\ UNCHANGED <<crawlVars, assetVars, iterVars, extraVars, fb_file, rate_limit_delay>>

\* fetch_bytes, head_metadata or spawn is called: none of them assigns
\* _rate_limit_delay.
FetcherOther ==
    /\ fb_pc \in {"returned", "raised"}
    /\ fb_calls < MaxCalls
    /\ \E op \in OtherOps : CallBegins(op, U0)
    /\ fb_before' = fb_file
    /\ fb_calls' = fb_calls + 1
    /\ UNCHANGED <<crawlVars, assetVars, iterVars, extraVars, fb_file, rate_limit_delay>>

FetchNext ==
    \/ FbStreamOk \/ FbStreamBroken \/ FbRequestError \/ FbStatusError
    \/ FhOk \/ FhThrottled \/ FhTail \/ FhRequestError \/ FhStatusError
    \/ FetcherCall \/ FetcherOther

FetchSpec == FetchInit /\ [][FetchNext]_vars

\* C9: when fetch_binary has failed, the file at the destination path is as
\* it was before the call.
C9_FailureKeepsFile ==
    fb_pc = "raised" => fb_file = fb_before

\* Requests of the call for its own URL (the alternate IIIF URL not counted).
MainRequests == Cardinality({i \in DOMAIN fb_log : fb_log[i] = fb_url})

\* C13: a fetch_html or fetch_binary call issues at most 3 requests when
\* every response is 403, at most 6 when every response is a retryable 5xx
\* and for any mix of responses, and after an error status outside the retry
\* set it ends: with exactly one request when that was the only response.
C13_RequestCeilings ==
    fb_op \in LoopOps =>
        /\ MainRequests <= 6
        /\ fb_codes = {StatusResp(403)} => MainRequests <= 3
        /\ (fb_last.kind = "status"
                /\ fb_last.code \notin {403, 429, 500, 502, 503, 504}) =>
              /\ fb_pc \in {"raised", "returned"}
              /\ fb_pc = "returned" => fb_last.code = 501 /\ fb_alt = "ok"
              /\ fb_codes = {fb_last} => MainRequests = 1

\* A call has failed after six requests that were answered 502 and 503.
C13_Witness ==
    /\ fb_pc = "raised"
    /\ MainRequests = 6
    /\ fb_codes = {StatusResp(502), StatusResp(503)}

\* C14: an error without a response is surfaced only when the retry ladder
\* is exhausted.
C14_TransientRetried ==
    (fb_pc = "raised" /\ fb_last.kind \in {"reqerr", "broken"}) =>
        MainRequests >= MAX_RETRIES

\* C15: a call whose every response was 429 gives up only after the 6
\* attempts of the extended ladder.
C15_RateLimitExtended ==
    (fb_pc = "raised" /\ fb_codes = {StatusResp(429)}) => MainRequests = 6

\* C16: the sleep before the attempt that follows a retryable response lasts
\* at least the seconds of a numeric Retry-After header, and at least 30 s
\* after a 429.
C16_SleepAtLeast ==
    (fb_pc = "loop" /\ fb_attempt > 0) =>
        /\ fb_hdr = "120" => fb_slept >= 120 * MS
        /\ fb_last = StatusResp(429) => fb_slept >= 30 * MS

C18_ThrottleBodyNotReturned ==
    /\ fb_content # "throttle_body"
    /\ fb_last = ThrottledResp => fb_pc # "tail"

\* C19: after a 501 for a URL with /full/full/ or /full/max/, fetch_binary
\* has issued exactly one request more, for the other size variant; it has
\* returned with the file written if that request succeeded and has raised
\* otherwise.  For another URL it has raised without a further request.
C19_AlternateOnce ==
    (fb_op = "fetch_binary" /\ fb_last = StatusResp(501)) =>
        IF fb_url \in {FFULL, FMAX}
        THEN /\ Len(fb_log) >= 2
             /\ fb_log[Len(fb_log) - 1] = fb_url
             /\ fb_log[Len(fb_log)] = (IF fb_url = FFULL THEN FMAX ELSE FFULL)
             /\ Cardinality({i \in DOMAIN fb_log : fb_log[i] # fb_url}) = 1
             /\ fb_alt = "ok" => fb_pc = "returned" /\ fb_file = "complete"
             /\ fb_alt # "ok" => fb_pc = "raised"
        ELSE /\ fb_pc = "raised"
             /\ \A i \in DOMAIN fb_log : fb_log[i] = fb_url

\* A download has succeeded through the alternate URL, after a 501 that
\* followed a retried response.
C19_Witness ==
    /\ fb_op = "fetch_binary" /\ fb_pc = "returned"
    /\ fb_last = StatusResp(501) /\ fb_alt = "ok"
    /\ fb_attempt > 0
    /\ fb_url = FFULL

(***************************************************************************)
(* The asset stage of a page scrape: scrape_page (serial and parallel      *)
(* branch) and scrape_assets.  A call of fetch_binary is one step with one *)
(* of the outcomes of the fetch_binary model: it returns, it raises on a   *)
(* status or request error, or it raises after the stream broke.           *)
(***************************************************************************)
SAFE_ASSET_WORKERS == 8
LARGE_IIIF_MIN_COUNT == 10

FetchOutcomes == {"ok", "status", "broken"}

\* get_best_image_url: the thumbnail rules rewrite "-thumb" to "".
get_best_image_url(url) == IF url = ITHUMB THEN IMG ELSE url

\* IIIF Image API URLs: the whole image at full size, a region of it at
\* full size, and a scaled-down region.
II_FULL == "http://site.test/iiif/image/7/full/full/0/default.jpg"
II_CROP == "http://site.test/iiif/image/7/0,0,256,256/full/0/default.jpg"
II_SMALL == "http://site.test/iiif/image/7/0,0,256,256/128,/0/default.jpg"

\* "/iiif/image/" in url.lower() and "/full/" in the path.
_is_large_iiif_image(url) == url \in {II_FULL, II_CROP}

IsImageTask(t) == t.ct # "application/pdf"

IsLargeTask(t) == _is_large_iiif_image(t.fetch)

_effective_asset_workers(work_items, requested, browser) ==
    IF browser \/ requested <= 1
    THEN IF browser THEN 1 ELSE requested
    ELSE LET image_items == SelectSeq(work_items, IsImageTask)
             large_count == Len(SelectSeq(image_items, IsLargeTask))
         IN  IF /\ large_count >= LARGE_IIIF_MIN_COUNT
                /\ large_count >= Len(image_items) \div 2
             THEN 1
             ELSE Min(Min(requested, SAFE_ASSET_WORKERS),
                      IF Len(work_items) = 0 THEN 1 ELSE Len(work_items))

_effective_asset_workers_for_tasks(ts, requested) ==
    IF requested <= 1
    THEN requested
    ELSE LET image_tasks == SelectSeq(ts, IsImageTask)
             large_count == Len(SelectSeq(image_tasks, IsLargeTask))
         IN  IF /\ large_count >= LARGE_IIIF_MIN_COUNT
                /\ large_count >= Len(image_tasks) \div 2
             THEN 1
             ELSE Min(Min(requested, SAFE_ASSET_WORKERS),
                      IF Len(ts) = 0 THEN 1 ELSE Len(ts))

\* sanitize_basename under the folder of the asset class: the path without
\* a uniqueness suffix.
CanonicalPath(url) ==
    IF url = FPDF THEN P_PDF
    ELSE IF url = ITHUMB THEN P_THUMB
    ELSE P_IMG

\* sanitize_basename reads parts[-1] of the path segments: a URL without a
\* path segment raises IndexError.
Nameable(url) == url # IPX

Exists(d, path) == d[path].st # "absent"

\* parent / f"{stem}_{n}{ext}"
Suffixed(path, n) ==
    IF path = P_PDF THEN P_PDF_1
    ELSE IF n = 1 THEN P_IMG_1 ELSE P_IMG_2

_ensure_unique(d, path) ==
    IF ~Exists(d, path) THEN path
    ELSE IF ~Exists(d, Suffixed(path, 1)) THEN Suffixed(path, 1)
    ELSE Suffixed(path, 2)

\* path_for_pdf and path_for_image
path_for(d, url) == _ensure_unique(d, CanonicalPath(url))

AssetInit ==
    /\ CrawlIdle
    /\ FetchIdle
    /\ IterIdle
    /\ ExtraIdle
    /\ as_pc = "build"
    /\ as_entry \in {"scrape_page", "scrape_assets"}
    /\ as_workers \in 1..MaxAssetWorkers
    /\ use_browser \in (IF as_entry = "scrape_assets" THEN BOOLEAN ELSE {FALSE})
    /\ as_assets \in PageAssets
    /\ tasks = << >>
    /\ disk \in PriorDisks
    /\ urls_map = NoEntries
    /\ as_saved = NoEntries
    /\ as_success = {}
    /\ as_run = 1
    /\ as_kept = FALSE
    /\ as_first = NoEntries

\* The branch of scrape_page that downloads in a thread pool and records the
\* results in the calling thread.
PoolBranch == as_entry = "scrape_page" /\ as_workers > 1

Effective ==
    IF as_entry = "scrape_page"
    THEN IF as_workers <= 1 THEN 1
         ELSE _effective_asset_workers_for_tasks(tasks, as_workers)
    ELSE _effective_asset_workers(tasks, as_workers, use_browser)

\* Mutant of InWorkList: the manifest is not consulted.
InWorkList_all(a) == TRUE

\* "if url not in urls_map"
InWorkList(a) == urls_map[a.key] = NoPath

\* The work list: the assets whose key is not in manifest["urls"].  scrape_page
\* fixes every destination here, scrape_assets in _download_one.
AsBuild ==
    /\ as_pc = "build"
    /\ LET work == SelectSeq(as_assets, InWorkList)
           fetchOf(a) == IF a.ct = "application/pdf" THEN a.key
                         ELSE get_best_image_url(a.key)
           destOf(a) == IF as_entry = "scrape_assets" THEN NoPath
                        ELSE IF Exists(disk, CanonicalPath(a.key))
                             THEN CanonicalPath(a.key)
                             ELSE path_for(disk, fetchOf(a))
       IN  IF as_entry = "scrape_page" /\ \E i \in DOMAIN work : ~Nameable(work[i].key)
           THEN /\ tasks' = << >>
                /\ as_pc' = "raised"
           ELSE /\ tasks' = [i \in 1..Len(work) |->
                        [key |-> work[i].key, fetch |-> fetchOf(work[i]),
                         ct |-> work[i].ct, dest |-> destOf(work[i]),
                         st |-> "todo", res |-> "none", chk |-> "none",
                         n |-> 0, wrote |-> FALSE, calls |-> << >>]]
                /\ as_pc' = "run"
    /\ UNCHANGED <<crawlVars, fetchVars, iterVars, extraVars, as_entry, as_workers, use_browser,
                   as_assets, disk, urls_map, as_saved, as_success, as_run,
                   as_kept, as_first>>

AsBusy == {i \in DOMAIN tasks : tasks[i].st \in {"check", "fetch1", "fetch2"}}

asFrame == <<crawlVars, fetchVars, iterVars, extraVars, as_pc, as_entry, as_workers, use_browser,
             as_assets, as_saved, as_run, as_kept, as_first>>

\* The next item of the work list is taken up: by the loop of the serial
\* branches, or by a free thread of the pool.
AsStart(i) ==
    /\ as_pc = "run"
    /\ tasks[i].st = "todo"
    /\ \A j \in 1..(i - 1) : tasks[j].st # "todo"
    /\ Cardinality(AsBusy) < Effective
    /\ Effective = 1 => \A j \in DOMAIN tasks : tasks[j].st # "raised"
    /\ tasks' = [tasks EXCEPT ![i].st = "check"]
    /\ UNCHANGED <<asFrame, disk, urls_map, as_success>>

\* What a finished download does: the serial branches and scrape_assets
\* record in place, the pool branch of scrape_page returns a result tuple.
Finished(i, t, ok) ==
    /\ as_success' = IF ok THEN as_success \cup {t.key} ELSE as_success
    /\ IF PoolBranch
       THEN /\ tasks' = [tasks EXCEPT ![i] =
                            [t EXCEPT !.st = "result",
                                      !.res = IF ok THEN "ok" ELSE "fail"]]
            /\ UNCHANGED urls_map
       ELSE /\ tasks' = [tasks EXCEPT ![i] =
                            [t EXCEPT !.st = "done",
                                      !.res = IF ok THEN "ok" ELSE "fail"]]
            /\ urls_map' = IF ok THEN [urls_map EXCEPT ![t.key] = t.dest]
                           ELSE urls_map

\* The item goes on to its download.
ToFetch(i, t) ==
    /\ tasks' = [tasks EXCEPT ![i] = [t EXCEPT !.st = "fetch1"]]
    /\ UNCHANGED <<urls_map, as_success>>

\* The test for an existing file of matching size; in scrape_assets also the
\* choice of the destination.  chk keeps what the test found.
AsCheck(i) ==
    /\ as_pc = "run"
    /\ tasks[i].st = "check"
    /\ \E match \in BOOLEAN :
        LET t == tasks[i]
            canon == CanonicalPath(t.key)
        IN  IF as_entry = "scrape_assets"
            THEN IF urls_map[t.key] # NoPath
                 THEN /\ tasks' = [tasks EXCEPT ![i].st = "done", ![i].res = "ok"]
                      /\ UNCHANGED <<urls_map, as_success>>
                 ELSE IF ~Nameable(t.key)
                 THEN /\ tasks' = [tasks EXCEPT ![i].st = "raised"]
                      /\ UNCHANGED <<urls_map, as_success>>
                 ELSE IF Exists(disk, canon)
                      THEN IF match
                           THEN Finished(i, [t EXCEPT !.dest = canon,
                                                      !.chk = "hit"], TRUE)
                           ELSE ToFetch(i, [t EXCEPT !.dest = canon,
                                                     !.chk = "differs"])
                      ELSE ToFetch(i, [t EXCEPT !.dest = path_for(disk, t.fetch),
                                                !.chk = "nofile"])
            ELSE IF Exists(disk, t.dest)
                 THEN IF match
                      THEN Finished(i, [t EXCEPT !.chk = "hit"], TRUE)
                      ELSE ToFetch(i, [t EXCEPT !.chk = "differs"])
                 ELSE ToFetch(i, [t EXCEPT !.chk = "nofile"])
    /\ UNCHANGED <<asFrame, disk>>

\* The effect of one fetch_binary call on the destination file.
DiskAfter(d, dest, url, out) ==
    IF out = "ok" THEN [d EXCEPT ![dest] = [st |-> StreamTo(d[dest].st, TRUE), src |-> url]]
    ELSE IF out = "broken"
         THEN [d EXCEPT ![dest] = [st |-> StreamTo(d[dest].st, FALSE), src |-> url]]
         ELSE d

\* The item after one more fetch_binary call: n counts the calls, wrote tells
\* whether a call opened the destination file.
Fetched(t, url, out) ==
    [t EXCEPT !.n = t.n + 1, !.wrote = t.wrote \/ out \in {"ok", "broken"},
              !.calls = Append(t.calls, [url |-> url, ok |-> out = "ok"])]

\* Mutant of Retryable: a PDF, or an item whose fetch URL is the original
\* URL, is fetched a second time as well.
Retryable_any(t) == TRUE

\* "if ct != "application/pdf" and map_key != fetch_url" in scrape_page,
\* "if best_url != url and not is_pdf" in _download_one
Retryable(t) == t.ct # "application/pdf" /\ t.key # t.fetch

\* fetch_binary(fetch_url, dest)
AsFetch1(i) ==
    /\ as_pc = "run"
    /\ tasks[i].st = "fetch1"
    /\ \E out \in FetchOutcomes :
        LET t == tasks[i]
        IN  /\ disk' = DiskAfter(disk, t.dest, t.fetch, out)
            /\ IF out = "ok"
               THEN Finished(i, Fetched(t, t.fetch, out), TRUE)
               ELSE IF Retryable(t)
                    THEN /\ tasks' = [tasks EXCEPT ![i] =
                                         [Fetched(t, t.fetch, out) EXCEPT !.st = "fetch2"]]
                         /\ UNCHANGED <<urls_map, as_success>>
                    ELSE Finished(i, Fetched(t, t.fetch, out), FALSE)
    /\ UNCHANGED asFrame

\* The retry of an image with its original URL.
AsFetch2(i) ==
    /\ as_pc = "run"
    /\ tasks[i].st = "fetch2"
    /\ \E out \in FetchOutcomes :
        LET t == tasks[i]
        IN  /\ disk' = DiskAfter(disk, t.dest, t.key, out)
            /\ Finished(i, Fetched(t, t.key, out), out = "ok")
    /\ UNCHANGED asFrame

\* The as_completed loop of scrape_page: urls_map[_map_key] = str(_dest) for
\* every result tuple, whatever its status.
AsRecord(i) ==
    /\ as_pc = "run"
    /\ PoolBranch
    /\ tasks[i].st = "result"
    /\ urls_map' = [urls_map EXCEPT ![tasks[i].key] = tasks[i].dest]
    /\ tasks' = [tasks EXCEPT ![i].st = "done"]
    /\ UNCHANGED <<asFrame, disk, as_success>>

\* save_manifest, and the page scrape returns.
AsReturn ==
    /\ as_pc = "run"
    /\ \A i \in DOMAIN tasks : tasks[i].st = "done"
    /\ as_saved' = urls_map
    /\ as_pc' = "returned"
    /\ UNCHANGED <<crawlVars, fetchVars, iterVars, extraVars, as_entry, as_workers, use_browser,
                   as_assets, tasks, disk, urls_map, as_success, as_run,
                   as_kept, as_first>>

\* The IndexError of sanitize_basename leaves scrape_assets: out of the loop
\* of the serial branch at once, out of the pool branch when the "with
\* ThreadPoolExecutor" block has waited for the submitted downloads.  The
\* caller's save_manifest is not reached.
AsAbort ==
    /\ as_pc = "run"
    /\ \E i \in DOMAIN tasks : tasks[i].st = "raised"
    /\ Effective = 1 \/ \A i \in DOMAIN tasks : tasks[i].st \in {"done", "raised"}
    /\ as_pc' = "raised"
    /\ UNCHANGED <<crawlVars, fetchVars, iterVars, extraVars, as_entry, as_workers, use_browser,
                   as_assets, tasks, disk, urls_map, as_saved, as_success, as_run,
                   as_kept, as_first>>

\* The same page is scraped again: load_manifest reads what the earlier scrape
\* saved, or nothing when manifest.json was removed in between.
AsAgain ==
    /\ as_pc = "returned"
    /\ as_run < MaxRuns
    /\ \E kept \in BOOLEAN :
          /\ as_kept' = kept
          /\ urls_map' = IF kept THEN as_saved ELSE NoEntries
    /\ as_first' = as_saved
    /\ as_run' = as_run + 1
    /\ as_pc' = "build"
    /\ tasks' = << >>
    /\ UNCHANGED <<crawlVars, fetchVars, iterVars, extraVars, as_entry, as_workers, use_browser,
                   as_assets, disk, as_saved, as_success>>

AssetNext ==
    \/ AsBuild
    \/ \E i \in DOMAIN tasks : AsStart(i)
    \/ \E i \in DOMAIN tasks : AsCheck(i)
    \/ \E i \in DOMAIN tasks : AsFetch1(i)
    \/ \E i \in DOMAIN tasks : AsFetch2(i)
    \/ \E i \in DOMAIN tasks : AsRecord(i)
    \/ AsReturn
    \/ AsAbort
    \/ AsAgain

AssetSpec == AssetInit /\ [][AssetNext]_vars

\* C8: when the page scrape has returned, an asset URL has an entry in
\* manifest["urls"] only if a download of it succeeded or a size match was
\* found, and the recorded path is a file on disk.
C8_RecordedOnlyIfDownloaded ==
    as_pc = "returned" =>
        \A k \in AssetKeys :
            as_saved[k] # NoPath =>
                k \in as_success /\ Exists(disk, as_saved[k])

\* C11: within one page scrape no two items of the work list write to the
\* same file and no two of them are recorded in the manifest under the same
\* path.
C11_DistinctFiles ==
    \A i, j \in DOMAIN tasks :
        i # j =>
            /\ (tasks[i].wrote /\ tasks[j].wrote) => tasks[i].dest # tasks[j].dest
            /\ (tasks[i].st = "done" /\ tasks[j].st = "done"
                    /\ urls_map[tasks[i].key] # NoPath)
                 => urls_map[tasks[i].key] # urls_map[tasks[j].key]

\* The earlier scrape recorded every asset of the page.
AllRecorded == \A a \in Range(as_assets) : as_first[a.key] # NoPath

\* An item whose file was found with the size of the remote content is
\* recorded without a fetch_binary call.
HitsAreNotDownloaded ==
    \A i \in DOMAIN tasks :
        tasks[i].chk = "hit" =>
            /\ tasks[i].n = 0 /\ ~tasks[i].wrote
            /\ tasks[i].st = "done" => urls_map[tasks[i].key] = tasks[i].dest

\* C12 as stated: a second scrape with the manifest in place issues no
\* download and leaves the manifest unchanged; without the manifest a file of
\* matching size is recorded without a download.
C12_SecondScrapeNoDownload ==
    as_run > 1 =>
        /\ as_kept =>
              /\ \A i \in DOMAIN tasks : tasks[i].n = 0
              /\ as_pc = "returned" => as_saved = as_first
        /\ ~as_kept => HitsAreNotDownloaded

\* C12 (amended): a second scrape with the manifest in place puts only the
\* assets the manifest lacks on the work list; when the earlier scrape
\* recorded every asset of the page it issues no download and leaves the
\* manifest unchanged; without the manifest a file of matching size is
\* recorded without a download.
C12_SecondScrapeSkipsRecorded ==
    as_run > 1 =>
        /\ as_kept =>
              \A i \in DOMAIN tasks : as_first[tasks[i].key] = NoPath
        /\ (as_kept /\ AllRecorded) =>
              /\ tasks = << >>
              /\ urls_map = as_first
              /\ as_pc = "returned" => as_saved = as_first
        /\ ~as_kept => HitsAreNotDownloaded

\* The second scrape of a page with three assets, all recorded by the first,
\* has returned with the manifest in place.
C12_Witness ==
    /\ as_run = 2 /\ as_kept /\ as_pc = "returned"
    /\ Len(as_assets) = 3
    /\ AllRecorded

(***************************************************************************)
(* Single-page mode: the iteration loop of run_single_or_sequential_crawl. *)
(* An iteration is one step; it ends with the page scraped or with an      *)
(* exception, which is_403 classifies.                                      *)
(***************************************************************************)
\* The page fetch of an iteration: the status the server gave (0 when
\* there was no answer), whether fetch_html raised, whether the exception
\* carries a response, and the text of str(e).
Page200 ==
    [page |-> 200, raised |-> FALSE, has_response |-> FALSE, text |-> ""]

\* page.goto does not look at the status: the body of the 403 page is
\* returned as the page (fetcher.py 232-258).
Page403 ==
    [page |-> 403, raised |-> FALSE, has_response |-> FALSE, text |-> ""]

HTTPStatus403 ==
    [page |-> 403, raised |-> TRUE, has_response |-> TRUE,
     text |-> "Client error '403 Forbidden' for url 'http://site.test/item/1403'"]

HTTPStatus500 ==
    [page |-> 500, raised |-> TRUE, has_response |-> TRUE,
     text |-> "Server error '500 Internal Server Error' for url 'http://site.test/item/1403'"]

ReadTimeout ==
    [page |-> 0, raised |-> TRUE, has_response |-> FALSE,
     text |-> "The read operation timed out"]

PageFetches(browser) ==
    IF browser THEN {Page200, Page403, ReadTimeout}
    ELSE {Page200, HTTPStatus403, HTTPStatus500, ReadTimeout}

\* write_text or save_manifest fails after the page was fetched; the text of
\* an OSError holds the path, which is built from the URL.
DiskFull(page) ==
    [page |-> page, raised |-> TRUE, has_response |-> FALSE,
     text |-> "[Errno 28] No space left on device: 'output/site.test/texts/item_1403.txt'"]

Saved(page) ==
    [page |-> page, raised |-> FALSE, has_response |-> FALSE, text |-> ""]

\* "403" in str(e)
Mentions403(text) ==
    text \in {HTTPStatus403.text, DiskFull(200).text}

is_403(e) ==
    IF e.has_response THEN e.page = 403 ELSE Mentions403(e.text)

\* min(DEFAULT_TIMEOUT * ITERATION_TIMEOUT_FACTOR ** iteration, MAX_TIMEOUT),
\* in milliseconds
timeout_i(i) == Min((30 * MS * Pow(3, i)) \div Pow(2, i), MAX_TIMEOUT * MS)

IterInit ==
    /\ CrawlIdle
    /\ FetchIdle
    /\ AssetIdle
    /\ ExtraIdle
    /\ it_pc = "loop"
    /\ it_page = 0
    /\ js \in BOOLEAN
    /\ max_iterations \in 1..MaxIterations
    /\ iteration = 0
    /\ had_403 = FALSE
    /\ it_log = << >>

\* use_browser = args.js or (iteration > 0 and had_403)
iter_use_browser == js \/ (iteration > 0 /\ had_403)

Logged(e) ==
    Append(it_log, [browser |-> iter_use_browser, timeout |-> timeout_i(iteration),
                    out |-> e])

\* The exceptions that can leave the try block at this point of the
\* iteration: asset failures are swallowed by scrape_assets.
Raisable ==
    IF it_pc = "loop"
    THEN {e \in PageFetches(iter_use_browser) : e.raised}
    ELSE {DiskFull(it_page)}

\* map_page fetched the page.
IterPage ==
    /\ it_pc = "loop"
    /\ \E e \in PageFetches(iter_use_browser) :
          /\ ~e.raised
          /\ it_page' = e.page
    /\ it_pc' = "mapped"
    /\ UNCHANGED <<crawlVars, fetchVars, assetVars, extraVars, js, max_iterations,
                   iteration, had_403, it_log>>

\* scrape_assets and save_manifest returned: break.
IterOk ==
    /\ it_pc = "mapped"
    /\ it_log' = Logged(Saved(it_page))
    /\ it_pc' = "done"
    /\ UNCHANGED <<crawlVars, fetchVars, assetVars, extraVars, it_page, js, max_iterations,
                   iteration, had_403>>

\* "if is_403(e) and iteration < max_iterations - 1": had_403 is set and the
\* loop continues.
IterRetry ==
    /\ it_pc \in {"loop", "mapped"}
    /\ \E e \in Raisable :
          /\ is_403(e) /\ iteration < max_iterations - 1
          /\ it_log' = Logged(e)
    /\ had_403' = TRUE
    /\ iteration' = iteration + 1
    /\ it_pc' = "loop"
    /\ it_page' = 0
    /\ UNCHANGED <<crawlVars, fetchVars, assetVars, extraVars, js, max_iterations>>

\* Any other exception, or the last iteration: raise.
IterRaise ==
    /\ it_pc \in {"loop", "mapped"}
    /\ \E e \in Raisable :
          /\ ~(is_403(e) /\ iteration < max_iterations - 1)
          /\ it_log' = Logged(e)
    /\ it_pc' = "raised"
    /\ UNCHANGED <<crawlVars, fetchVars, assetVars, extraVars, it_page, js, max_iterations,
                   iteration, had_403>>

IterNext == IterPage \/ IterOk \/ IterRetry \/ IterRaise

IterSpec == IterInit /\ [][IterNext]_vars

\* Iteration i ended with an exception because the server answered its page
\* fetch with 403.
Ended403(i) == it_log[i].out.raised /\ it_log[i].out.page = 403

\* C20: an iteration whose page fetch ended in a 403 and which is not the
\* last of the max_iterations is followed by an iteration on the browser
\* backend; without the browser flag an iteration is on the browser backend
\* only if the page fetch of an earlier one ended in a 403; no iteration
\* runs after a successful one.
C20_EscalateOn403 ==
    \A i \in DOMAIN it_log :
        /\ (Ended403(i) /\ i < max_iterations) =>
              IF i < Len(it_log) THEN it_log[i + 1].browser
              ELSE it_pc \in {"loop", "mapped"} /\ iter_use_browser
        /\ (it_log[i].browser /\ ~js) =>
              \E k \in 1..(i - 1) : Ended403(k)
        /\ ~it_log[i].out.raised => i = Len(it_log) /\ it_pc = "done"

\* Iteration i ended with a transient error that is not a 403: a timeout or
\* a 5xx left after the fetcher's retries.
EndedTransient(i) ==
    /\ it_log[i].out.raised
    /\ it_log[i].out.text \in {ReadTimeout.text, HTTPStatus500.text}

\* C21: an iteration that failed with a transient error other than 403 and
\* is not the last of the max_iterations is followed by another iteration,
\* run with the longer timeout.
C21_TransientNextIteration ==
    \A i \in DOMAIN it_log :
        (EndedTransient(i) /\ i < max_iterations) =>
            IF i < Len(it_log)
            THEN it_log[i + 1].timeout = timeout_i(i)
            ELSE it_pc \in {"loop", "mapped"} /\ iteration = i

(***************************************************************************)
(* The command line: main._run loops over the seed URLs, hands each to     *)
(* crawl_parallel or run_single_or_sequential_crawl, and runs the          *)
(* completion hook after the loop.  One step per seed.                     *)
(***************************************************************************)
\* What the site of a seed does: robots.txt allows the seed or not, and the
\* page fetch of the seed succeeds or ends with an error.
SeedSites == [robots_ok : BOOLEAN, page_ok : BOOLEAN]

SeedLists == UNION {[1..n -> SeedSites] : n \in 1..MaxSeeds}

ArgSets == [crawl : BOOLEAN, js : BOOLEAN, workers : {1, 2}, no_robots : BOOLEAN,
            done_script : BOOLEAN]

MainInit ==
    /\ CrawlIdle
    /\ FetchIdle
    /\ AssetIdle
    /\ IterIdle
    /\ RobotsIdle
    /\ EwIdle
    /\ MapIdle
    /\ CollectIdle
    /\ RefIdle
    /\ TailIdle
    /\ m_pc = "seed"
    /\ m_args \in ArgSets
    /\ m_urls \in SeedLists
    /\ m_i = 1
    /\ m_log = << >>
    /\ m_hook = FALSE
    /\ m_exit = -1

\* use_parallel = args.crawl and workers > 1 and not args.js and not flaresolverr_url
use_parallel == m_args.crawl /\ m_args.workers > 1 /\ ~m_args.js

\* can_fetch(args.url): the gate is consulted whatever args.no_robots says.
gate_allows(seed) == seed.robots_ok

AtSeed == m_pc = "seed" /\ m_i <= Len(m_urls)

Did(call, fetched, refused, failed) ==
    Append(m_log, [seed |-> m_i, call |-> call, fetched |-> fetched,
                   refused |-> refused, failed |-> failed])

\* crawl_parallel is called with keywords its signature does not have
\* (flaresolverr_url, retry_failed, retry_timeout, no_robots, headed,
\* human_bypass): the call raises TypeError before any request.
MainParallel ==
    /\ AtSeed /\ use_parallel
    /\ m_log' = Did("crawl_parallel", FALSE, FALSE, FALSE)
    /\ m_pc' = "raised"
    /\ m_exit' = 1
    /\ UNCHANGED <<oldVars, robotsVars, workerVars27, mapVars, collectVars, refVars, tailVars, m_args, m_urls, m_i, m_hook>>

\* Sequential crawl: a disallowed seed is skipped, an error of scrape_page is
\* printed; run_crawl returns either way.
MainSequential ==
    /\ AtSeed /\ m_args.crawl /\ ~use_parallel
    /\ LET seed == m_urls[m_i]
       IN  m_log' = Did("sequential", gate_allows(seed), ~gate_allows(seed),
                        gate_allows(seed) /\ ~seed.page_ok)
    /\ m_i' = m_i + 1
    /\ UNCHANGED <<oldVars, robotsVars, workerVars27, mapVars, collectVars, refVars, tailVars, m_pc, m_args, m_urls, m_hook, m_exit>>

\* Single page, refused by the gate: sys.exit(1).
MainSingleRefused ==
    /\ AtSeed /\ ~m_args.crawl
    /\ ~gate_allows(m_urls[m_i])
    /\ m_log' = Did("single", FALSE, TRUE, FALSE)
    /\ m_pc' = "exited"
    /\ m_exit' = 1
    /\ UNCHANGED <<oldVars, robotsVars, workerVars27, mapVars, collectVars, refVars, tailVars, m_args, m_urls, m_i, m_hook>>

\* Single page, scraped: the iteration loop breaks.
MainSingleOk ==
    /\ AtSeed /\ ~m_args.crawl
    /\ gate_allows(m_urls[m_i]) /\ m_urls[m_i].page_ok
    /\ m_log' = Did("single", TRUE, FALSE, FALSE)
    /\ m_i' = m_i + 1
    /\ UNCHANGED <<oldVars, robotsVars, workerVars27, mapVars, collectVars, refVars, tailVars, m_pc, m_args, m_urls, m_hook, m_exit>>

\* Single page, the page fetch fails: the iteration loop re-raises and
\* nothing between it and the interpreter catches the exception.
MainSingleRaise ==
    /\ AtSeed /\ ~m_args.crawl
    /\ gate_allows(m_urls[m_i]) /\ ~m_urls[m_i].page_ok
    /\ m_log' = Did("single", TRUE, FALSE, TRUE)
    /\ m_pc' = "raised"
    /\ m_exit' = 1
    /\ UNCHANGED <<oldVars, robotsVars, workerVars27, mapVars, collectVars, refVars, tailVars, m_args, m_urls, m_i, m_hook>>

\* After the loop: run_done_script if one was given, then "Done.".
MainDone ==
    /\ m_pc = "seed" /\ m_i > Len(m_urls)
    /\ m_hook' = m_args.done_script
    /\ m_pc' = "done"
    /\ m_exit' = 0
    /\ UNCHANGED <<oldVars, robotsVars, workerVars27, mapVars, collectVars, refVars, tailVars, m_args, m_urls, m_i, m_log>>

MainNext ==
    \/ MainParallel
    \/ MainSequential
    \/ MainSingleRefused
    \/ MainSingleOk
    \/ MainSingleRaise
    \/ MainDone

MainSpec == MainInit /\ [][MainNext]_vars

MainEnded == m_pc \in {"done", "raised", "exited"}

\* C22: when the run has ended and the page fetch of some seed failed, every
\* seed was processed and the completion hook, if one was given, was
\* invoked.
C22_FailureDoesNotStopRun ==
    (MainEnded /\ \E k \in DOMAIN m_log : m_log[k].failed) =>
        /\ Len(m_log) = Len(m_urls)
        /\ m_args.done_script => m_hook

\* C23: run_crawl is started again exactly when the run that returned was
\* the initial one, had same_domain_only = true and a visit set of at most
\* one URL; the second run is cross-domain, and after it no run is started.
C23_CrossDomainRetryOnce ==
    [][/\ (ctl = "returned" /\ ctl' = "crawl") =>
              /\ same_domain_only /\ same_dom /\ ~retried_cross_domain
              /\ Cardinality(seen) <= 1
              /\ ~same_dom' /\ retried_cross_domain'
       /\ (ctl = "returned" /\ ctl' = "finished") =>
              ~(same_domain_only /\ ~retried_cross_domain /\ Cardinality(seen) <= 1)
       /\ retried_cross_domain => retried_cross_domain']_vars

C23_Witness ==
    /\ ctl = "finished" /\ retried_cross_domain
    /\ ~same_dom /\ Cardinality(seen) > 1

(***************************************************************************)
(* robots.py: can_fetch and _get_parser, called by threads that share the  *)
(* module's cache.  The test of the cache, the request for robots.txt and  *)
(* the assignment to the cache are three steps; no lock is held.           *)
(***************************************************************************)
RobotsInit ==
    /\ CrawlIdle
    /\ FetchIdle
    /\ AssetIdle
    /\ IterIdle
    /\ MainIdle
    /\ RobotsIdle
    /\ EwIdle
    /\ MapIdle
    /\ CollectIdle
    /\ RefIdle
    /\ TailIdle

notRobots == <<oldVars, mainVars, workerVars27, mapVars, collectVars, refVars, tailVars>>

\* can_fetch(url): "if key not in _robots_cache"; a cached entry is returned
\* at once.
RbCall(t) ==
    /\ rb_pc[t] = "idle"
    /\ rb_calls < MaxRobotCalls
    /\ rb_calls' = rb_calls + 1
    /\ \E url \in PageURLs :
          LET key == _robots_key(url)
          IN  /\ rb_key' = [rb_key EXCEPT ![t] = key]
              /\ rb_pc' = [rb_pc EXCEPT ![t] =
                              IF robots_cache[key] = "absent" THEN "read" ELSE "idle"]
    /\ UNCHANGED <<notRobots, robots_cache, rb_rp, rb_reads, rb_installs>>

\* rp.read(): robots.txt is requested; the parser is kept, or None when the
\* request raised.
RbRead(t) ==
    /\ rb_pc[t] = "read"
    /\ rb_reads' = [rb_reads EXCEPT ![rb_key[t]] = @ + 1]
    /\ \E rp \in {"policy", "allow_all"} : rb_rp' = [rb_rp EXCEPT ![t] = rp]
    /\ rb_pc' = [rb_pc EXCEPT ![t] = "install"]
    /\ UNCHANGED <<notRobots, robots_cache, rb_key, rb_installs, rb_calls>>

\* _robots_cache[key] = rp (or None)
RbInstall(t) ==
    /\ rb_pc[t] = "install"
    /\ robots_cache' = [robots_cache EXCEPT ![rb_key[t]] = rb_rp[t]]
    /\ rb_installs' = [rb_installs EXCEPT ![rb_key[t]] = @ + 1]
    /\ rb_pc' = [rb_pc EXCEPT ![t] = "idle"]
    /\ UNCHANGED <<notRobots, rb_key, rb_rp, rb_reads, rb_calls>>

RobotsNext ==
    \/ \E t \in RobotThreads : RbCall(t)
    \/ \E t \in RobotThreads : RbRead(t)
    \/ \E t \in RobotThreads : RbInstall(t)

RobotsSpec == RobotsInit /\ [][RobotsNext]_vars

\* C24: for every key robots.txt is requested at most once and an entry is
\* installed at most once, so an installed entry is never replaced.
C24_InstalledOnce ==
    \A k \in RobotKeys : rb_reads[k] <= 1 /\ rb_installs[k] <= 1

(***************************************************************************)
(* The robots gate in the three modes: both crawls and the single-page run *)
(* of the command line.                                                    *)
(***************************************************************************)
GateInit == Init \/ MainInit

GateNext == Next \/ MainNext

GateSpec == GateInit /\ [][GateNext]_vars

\* The sequential crawl is about to dequeue a disallowed URL that no earlier
\* test of the loop would skip.
SeqAtDisallowed ==
    /\ workers = 1 /\ ctl = "crawl" /\ q # << >>
    /\ ~SeqSkip(Head(q).url, Head(q).depth) /\ ~SeqOffDomain(Head(q).url)
    /\ ~can_fetch(Head(q).url)

\* C25: no disallowed URL is scraped; a crawl that meets one drops it from
\* the frontier and goes on (the sequential loop with the rest of its queue,
\* the parallel worker to its bookkeeping and the next item); a single-page
\* run refused by the gate makes no request and exits with code 1.
C25_DisallowedNeverFetched ==
    /\ [](ScrapedURLs \cap disallow = {})
    /\ [](\A k \in DOMAIN m_log :
            (m_log[k].call = "single" /\ m_log[k].refused) =>
                /\ ~m_log[k].fetched
                /\ k = Len(m_log) /\ m_pc = "exited" /\ m_exit = 1)
    /\ [][/\ SeqAtDisallowed =>
                /\ q' = Tail(q) /\ ctl' = "crawl"
                /\ scraped' = scraped /\ seen' = seen
          /\ \A w \in Pool :
                (/\ workers > 1 /\ pc[w] = "process" /\ pc'[w] # "process"
                 /\ ~can_fetch(witem[w].url)) =>
                    /\ pc'[w] = "dec_acq" /\ wlinks'[w] = << >>
                    /\ work_queue' = work_queue /\ scraped' = scraped]_vars

\* A sequential crawl skipped a disallowed link and scraped a later one.
C25_Witness ==
    /\ workers = 1 /\ ctl = "finished"
    /\ disallow # {} /\ U0 \notin disallow
    /\ \E i, j \in DOMAIN site[U0] :
          /\ i < j /\ site[U0][i] \in disallow
          /\ site[U0][j] \in ScrapedURLs

\* C26: with --no-robots no seed is refused or skipped by the robots gate.
C26_NoRobotsBypassesGate ==
    m_args.no_robots => \A k \in DOMAIN m_log : ~m_log[k].refused

(***************************************************************************)
(* _effective_asset_workers as a function of the work list: large IIIF     *)
(* images, other images and PDFs, in that order.                           *)
(***************************************************************************)
WorkItem(fetch, ct) == [fetch |-> fetch, ct |-> ct]

WorkList(n_large, n_other, n_pdf) ==
    [i \in 1..(n_large + n_other + n_pdf) |->
        IF i <= n_large THEN WorkItem(II_FULL, "image/jpeg")
        ELSE IF i <= n_large + n_other THEN WorkItem(IMG, "image/jpeg")
        ELSE WorkItem(FPDF, "application/pdf")]

EwInit ==
    /\ CrawlIdle
    /\ FetchIdle
    /\ AssetIdle
    /\ IterIdle
    /\ MainIdle
    /\ RobotsIdle
    /\ MapIdle
    /\ CollectIdle
    /\ RefIdle
    /\ TailIdle
    /\ \E n_large \in 0..MaxLarge, n_other \in 0..MaxOther, n_pdf \in {0, 1, MaxOther} :
          ew_work = WorkList(n_large, n_other, n_pdf)
    /\ ew_requested \in 1..MaxRequested
    /\ ew_browser \in BOOLEAN
    /\ ew_out = -1
    /\ ew_page = -1

EwCall ==
    /\ ew_out = -1
    /\ ew_out' = _effective_asset_workers(ew_work, ew_requested, ew_browser)
    /\ UNCHANGED <<oldVars, mainVars, robotsVars, mapVars, collectVars, refVars, tailVars, ew_work, ew_requested, ew_browser, ew_page>>

\* scrape_page for the same tasks, asset_workers = requested, and a Fetcher
\* of the same backend: the loop in its own thread, or a pool of
\* _effective_asset_workers_for_tasks(asset_tasks, asset_workers) threads.
EwPage ==
    /\ ew_page = -1
    /\ ew_page' = IF ew_work = << >> \/ ew_requested <= 1 THEN 1
                  ELSE _effective_asset_workers_for_tasks(ew_work, ew_requested)
    /\ UNCHANGED <<oldVars, mainVars, robotsVars, mapVars, collectVars, refVars, tailVars, ew_work, ew_requested, ew_browser, ew_out>>

EwNext == EwCall \/ EwPage

EwSpec == EwInit /\ [][EwNext]_vars

LargeCount(work) == Len(SelectSeq(work, IsLargeTask))

\* C27: for a nonempty work list and requested >= 1 the result is 1 in
\* browser mode, 1 when the large IIIF items number at least 10 and are at
\* least half of the work list, and min(requested, 8, |work|) otherwise.
C27_EffectiveWorkers ==
    (ew_out # -1 /\ Len(ew_work) > 0) =>
        ew_out = IF ew_browser THEN 1
                 ELSE IF /\ LargeCount(ew_work) >= 10
                         /\ 2 * LargeCount(ew_work) >= Len(ew_work)
                      THEN 1
                      ELSE Min(Min(ew_requested, 8), Len(ew_work))

(***************************************************************************)
(* map_page with a size filter: head_one_image for every candidate (the    *)
(* executor's map keeps the order), then the loop that fills image_items.  *)
(***************************************************************************)
\* Sizes in kB around the band [50, 200].
Lengths == {NoLength, 48, 50, 200, 250}

\* What head_metadata returns: (None, None) when the request failed.
HeadAnswers ==
    {[ct |-> NoType, cl |-> NoLength]}
        \cup [ct : {"image/jpeg", "text/html"}, cl : Lengths]

Candidates == {ITHUMB, IB}

CandidateLists ==
    {s \in UNION {[1..n -> Candidates] : n \in 1..MaxImages} :
        \A i, j \in DOMAIN s : i # j => s[i] # s[j]}

MapInit ==
    /\ CrawlIdle
    /\ FetchIdle
    /\ AssetIdle
    /\ IterIdle
    /\ MainIdle
    /\ RobotsIdle
    /\ EwIdle
    /\ CollectIdle
    /\ RefIdle
    /\ TailIdle
    /\ mp_pc = "head"
    /\ mp_urls \in CandidateLists
    /\ mp_env \in [{ITHUMB, IMG, IB} -> HeadAnswers]
    /\ \E band \in {<<50, 200>>, <<50, NoLength>>, <<NoLength, 200>>} :
          min_image_size = band[1] /\ max_image_size = band[2]
    /\ mp_results = << >>
    /\ mp_heads = << >>
    /\ mp_items = << >>

IsImageType(ct) == ct = "image/jpeg"

\* head_one_image: the result tuple, or None (res = FALSE), and the URLs
\* it HEADed.
head_one_image(img_url) ==
    LET best == get_best_image_url(img_url)
        first == mp_env[best]
        again == first.ct # NoType /\ ~IsImageType(first.ct)
        last == IF again THEN mp_env[img_url] ELSE first
    IN  [res |-> last.ct # NoType,
         url |-> img_url,
         best |-> IF again THEN img_url ELSE best,
         ct |-> last.ct,
         cl |-> last.cl,
         heads |-> IF again THEN <<best, img_url>> ELSE <<best>>]

\* Mutant of Passes: the bounds are exclusive.
Passes_exclusive(content_length) ==
    \/ content_length = NoLength
    \/ /\ ~(min_image_size # NoLength /\ content_length <= min_image_size)
       /\ ~(max_image_size # NoLength /\ content_length >= max_image_size)

\* The two "continue" tests of the loop over the results.
Passes(content_length) ==
    \/ content_length = NoLength
    \/ /\ ~(min_image_size # NoLength /\ content_length < min_image_size)
       /\ ~(max_image_size # NoLength /\ content_length > max_image_size)

notMap == <<oldVars, mainVars, robotsVars, workerVars27, collectVars, refVars, tailVars>>

MpHead ==
    /\ mp_pc = "head"
    /\ Len(mp_results) < Len(mp_urls)
    /\ LET r == head_one_image(mp_urls[Len(mp_results) + 1])
       IN  /\ mp_results' = Append(mp_results, r)
           /\ mp_heads' = mp_heads \o r.heads
    /\ mp_pc' = IF Len(mp_results') = Len(mp_urls) THEN "filter" ELSE "head"
    /\ UNCHANGED <<notMap, mp_urls, mp_env, min_image_size, max_image_size, mp_items>>

MpFilter ==
    /\ mp_pc = "filter"
    /\ LET keep(r) == r.res /\ Passes(r.cl)
           kept == SelectSeq(mp_results, keep)
       IN  mp_items' = [i \in 1..Len(kept) |->
                              [url |-> kept[i].url, best |-> kept[i].best,
                               ct |-> kept[i].ct]]
    /\ mp_pc' = "done"
    /\ UNCHANGED <<notMap, mp_urls, mp_env, min_image_size, max_image_size,
                   mp_results, mp_heads>>

MapNext == MpHead \/ MpFilter

MapSpec == MapInit /\ [][MapNext]_vars

\* The answer that counts for a candidate: that of the rewritten URL, or
\* that of the original URL when the rewritten one has a non-image type.
CountedAnswer(u) ==
    LET first == mp_env[get_best_image_url(u)]
    IN  IF first.ct \notin {NoType, "image/jpeg"} THEN mp_env[u] ELSE first

InBand(cl) ==
    /\ min_image_size # NoLength => cl >= min_image_size
    /\ max_image_size # NoLength => cl <= max_image_size

Listed(u) == \E i \in DOMAIN mp_items : mp_items[i].url = u

Follows(a, b) == \E i \in 1..(Len(mp_heads) - 1) : mp_heads[i] = a /\ mp_heads[i + 1] = b

\* C28: with a size filter, when map_page is done a candidate is in
\* image_items exactly when the HEAD that counts gave a content type and the
\* Content-Length is unknown or within [min, max]; and a rewritten URL that
\* answered with a non-image type was followed by a HEAD of the original.
C28_SizeFilter ==
    mp_pc = "done" =>
        \A i \in DOMAIN mp_urls :
            LET u == mp_urls[i]
                a == CountedAnswer(u)
                first == mp_env[get_best_image_url(u)]
            IN  /\ Listed(u) <=> (a.ct # NoType /\ (a.cl = NoLength \/ InBand(a.cl)))
                /\ (first.ct \notin {NoType, "image/jpeg"}) =>
                      Follows(get_best_image_url(u), u)

\* A filtered page: one candidate kept with a length on the lower bound
\* after its rewritten URL answered text/html, the other dropped for its
\* length.
C28_Witness ==
    /\ mp_pc = "done"
    /\ mp_urls = <<ITHUMB, IB>>
    /\ mp_env[IMG].ct = "text/html" /\ mp_env[ITHUMB] = [ct |-> "image/jpeg", cl |-> 50]
    /\ mp_env[IB] = [ct |-> "image/jpeg", cl |-> 250]
    /\ Listed(ITHUMB) /\ ~Listed(IB)
    /\ mp_heads = <<IMG, ITHUMB, IB>>

(***************************************************************************)
(* discovery.collect_image_urls: CONTENTdm rewrites, then the images of    *)
(* the IIIF manifests, then the images of the page, through add().         *)
(***************************************************************************)
FAVICON == "http://site.test/favicon.ico"

ImageURLs == {IB, IC, FAVICON}

\* Mutant of should_skip_image_url: nothing is skipped.
should_skip_image_url_never(u) == FALSE

\* "/favicon.ico" is one of SKIP_IMAGE_PATTERNS.
should_skip_image_url(u) == u = FAVICON

SourceLists == UNION {[1..n -> ImageURLs] : n \in 0..MaxSource}

\* None, or what --limit was given: argparse takes any integer.
Limits == {NoLimit, -1, 0, 1, 2}

CollectInit ==
    /\ CrawlIdle
    /\ FetchIdle
    /\ AssetIdle
    /\ IterIdle
    /\ MainIdle
    /\ RobotsIdle
    /\ EwIdle
    /\ MapIdle
    /\ RefIdle
    /\ TailIdle
    /\ ci_pc = "call"
    /\ ci_in \in [cdm : SourceLists, iiif : SourceLists, html : SourceLists,
                  manifest_ok : BOOLEAN, limit : Limits]
    /\ ci_out = << >>

\* add(u) for every u of a source, in order.
RECURSIVE AddAll(_, _)
AddAll(img_urls, source) ==
    IF source = << >> THEN img_urls
    ELSE LET u == Head(source)
             added == IF ~should_skip_image_url(u) /\ u \notin Range(img_urls)
                      THEN Append(img_urls, u)
                      ELSE img_urls
         IN  AddAll(added, Tail(source))

\* img_urls[:limit], with Python's meaning of a negative limit.
Slice(img_urls, limit) ==
    LET n == Len(img_urls)
        stop == IF limit < 0 THEN Max(0, n + limit) ELSE Min(limit, n)
    IN  SubSeq(img_urls, 1, stop)

\* An exception of fetch_manifest or json.loads is swallowed and the
\* manifest adds nothing.
collect_image_urls(in) ==
    LET a == AddAll(<< >>, in.cdm)
        b == IF in.manifest_ok THEN AddAll(a, in.iiif) ELSE a
        c == AddAll(b, in.html)
    IN  IF in.limit # NoLimit THEN Slice(c, in.limit) ELSE c

CiCall ==
    /\ ci_pc = "call"
    /\ ci_out' = collect_image_urls(ci_in)
    /\ ci_pc' = "returned"
    /\ UNCHANGED <<oldVars, mainVars, robotsVars, workerVars27, mapVars, refVars, tailVars, ci_in>>

CollectNext == CiCall

CollectSpec == CollectInit /\ [][CollectNext]_vars

\* Everything the sources yield, in the order of insertion.
Yielded ==
    ci_in.cdm \o (IF ci_in.manifest_ok THEN ci_in.iiif ELSE << >>) \o ci_in.html

FirstAt(u) == CHOOSE i \in DOMAIN Yielded : Yielded[i] = u /\ \A k \in 1..(i - 1) : Yielded[k] # u

\* C29: the list returned has no URL twice, no URL with a skip pattern, at
\* most limit entries when a count is given as limit, and its entries are
\* yielded URLs in the order of their first insertion.
C29_ImageList ==
    ci_pc = "returned" =>
        /\ \A i, j \in DOMAIN ci_out : i # j => ci_out[i] # ci_out[j]
        /\ \A i \in DOMAIN ci_out : ci_out[i] # FAVICON
        /\ ci_in.limit >= 0 => Len(ci_out) <= ci_in.limit
        /\ \A i \in DOMAIN ci_out : ci_out[i] \in Range(Yielded)
        /\ \A i, j \in DOMAIN ci_out : i < j => FirstAt(ci_out[i]) < FirstAt(ci_out[j])

\* The sources yield a skipped URL and a URL twice, the manifest was read
\* and the limit cuts the list.
C29_Witness ==
    /\ ci_pc = "returned"
    /\ ci_in.cdm = <<IC, FAVICON>> /\ ci_in.iiif = <<IC, IB>> /\ ci_in.html = <<IB, IC>>
    /\ ci_in.manifest_ok /\ ci_in.limit = 1
    /\ ci_out = <<IC>>

(***************************************************************************)
(* The Referer of asset requests: what fetch_html records on the Fetcher   *)
(* and what fetch_binary and head_metadata send, in the three backends.    *)
(***************************************************************************)
NoReferer == "None"

RefInit ==
    /\ CrawlIdle
    /\ FetchIdle
    /\ AssetIdle
    /\ IterIdle
    /\ MainIdle
    /\ RobotsIdle
    /\ EwIdle
    /\ MapIdle
    /\ CollectIdle
    /\ TailIdle
    /\ rf_mode \in {"httpx", "browser", "flaresolverr"}
    /\ page_url = "None"
    /\ rf_html = "None"
    /\ rf_reqs = << >>

notRef == <<oldVars, mainVars, robotsVars, workerVars27, mapVars, collectVars, tailVars>>

RefCalls == Len(rf_reqs) < MaxRefCalls

\* fetch_html: self._page_url = url in the FlareSolverr and the browser
\* branch; the plain-HTTP loop does not assign it.
RfFetchHtml ==
    /\ \E url \in {U0, UA} :
          /\ rf_html' = url
          /\ page_url' = IF rf_mode = "httpx" THEN page_url ELSE url
    /\ UNCHANGED <<notRef, rf_mode, rf_reqs>>

\* headers = {"Referer": self._page_url} if self._page_url else {}, in the
\* browser branch only; client.stream and client.head get no headers.
SentReferer ==
    IF rf_mode = "browser" /\ page_url # "None" THEN page_url ELSE NoReferer

Request(method, url) ==
    Append(rf_reqs, [method |-> method, url |-> url, referer |-> SentReferer,
                     page |-> rf_html])

RfFetchBinary ==
    /\ RefCalls
    /\ \E url \in {FPDF, IB} : rf_reqs' = Request("GET", url)
    /\ UNCHANGED <<notRef, rf_mode, page_url, rf_html>>

RfHeadMetadata ==
    /\ RefCalls
    /\ \E url \in {FPDF, IB} : rf_reqs' = Request("HEAD", url)
    /\ UNCHANGED <<notRef, rf_mode, page_url, rf_html>>

RefNext == RfFetchHtml \/ RfFetchBinary \/ RfHeadMetadata

RefSpec == RefInit /\ [][RefNext]_vars

\* C30: every fetch_binary or head_metadata request sent after a fetch_html
\* call carries the URL of the most recent fetch_html as Referer.
C30_RefererIsPage ==
    \A i \in DOMAIN rf_reqs :
        rf_reqs[i].page # "None" => rf_reqs[i].referer = rf_reqs[i].page

(***************************************************************************)
(* Threads and Fetcher instances at the four places where work fans out:   *)
(* the HEAD pool of map_page, the download pool of scrape_assets, the      *)
(* download pool of scrape_page and the workers of crawl_parallel.  Thread *)
(* 0 is the calling thread; Fetcher 1 is the one the caller passed in.     *)
(***************************************************************************)
SharedFetcher == 1

FanOuts == {"map_page", "scrape_assets", "scrape_page", "crawl"}

\* The threads of the pool, 0 when the work runs in the calling thread.
PoolSize ==
    CASE th_site = "map_page" ->
            LET effective_head_workers == IF th_browser THEN 1 ELSE th_requested
            IN  IF effective_head_workers > 1 /\ th_n > 4
                THEN Min(effective_head_workers, IF th_n = 0 THEN 1 ELSE th_n)
                ELSE 0
      [] th_site = "scrape_assets" ->
            LET effective_workers ==
                    _effective_asset_workers(WorkList(0, th_n, 0), th_requested,
                                             th_browser)
            IN  IF effective_workers = 1 THEN 0 ELSE effective_workers
      [] th_site = "scrape_page" ->
            IF th_n = 0 \/ th_requested <= 1 THEN 0
            ELSE _effective_asset_workers_for_tasks(WorkList(0, th_n, 0),
                                                    th_requested)
      [] OTHER -> th_requested

Active == IF PoolSize = 0 THEN {0} ELSE 1..PoolSize

\* A pool thread of scrape_page (its initializer) and a crawl worker make the
\* Fetcher they keep before they take work.
KeepsFetcher == th_site \in {"scrape_page", "crawl"}

\* head_one_image with use_shared=False and the fetcher_ctx of a scrape
\* without browser make a Fetcher for every call.
PerCall ==
    \/ th_site = "map_page" /\ PoolSize > 0
    \/ th_site = "scrape_assets" /\ ~th_browser

OwnInit ==
    /\ CrawlIdle
    /\ FetchIdle
    /\ AssetIdle
    /\ IterIdle
    /\ MainIdle
    /\ RobotsIdle
    /\ EwIdle
    /\ MapIdle
    /\ CollectIdle
    /\ RefIdle
    /\ ProgIdle
    /\ PathIdle
    /\ SchemaIdle
    /\ th_site \in FanOuts
    /\ th_browser \in BOOLEAN
    /\ th_requested \in 1..MaxThreads
    /\ th_n \in 0..MaxItems
    /\ th_todo = th_n
    /\ th_pc = "run"
    /\ th_state = [t \in Threads |->
                      IF t \in 1..PoolSize /\ KeepsFetcher THEN "new" ELSE "idle"]
    /\ th_use = [t \in Threads |-> 0]
    /\ th_local = [t \in Threads |-> 0]
    /\ fetchers_made = 0
    /\ fetchers_open = {}
    /\ th_raised = FALSE

notOwn == <<oldVars, mainVars, robotsVars, workerVars27, mapVars, collectVars,
            refVars,
            progVars,
            pathVars,
            schemaVars>>

NewFetcher == fetchers_made + 2

\* f = fetcher.spawn(); _fetchers_to_close.append(f); _thread_local.fetcher = f
\* and, in a crawl worker, fetcher = Fetcher(use_browser=use_browser).
OwStart(t) ==
    /\ th_pc = "run"
    /\ t \in Active
    /\ th_state[t] = "new"
    /\ th_local' = [th_local EXCEPT ![t] = NewFetcher]
    /\ fetchers_made' = fetchers_made + 1
    /\ fetchers_open' = fetchers_open \cup {NewFetcher}
    /\ th_state' = [th_state EXCEPT ![t] = "idle"]
    /\ UNCHANGED <<notOwn, th_site, th_browser, th_requested, th_n, th_todo, th_pc,
                   th_use, th_raised>>

\* Mutant of FetcherOf: the HEAD pool passes use_shared=True.
FetcherOf_shared(t) ==
    IF th_site = "map_page" THEN SharedFetcher
    ELSE IF PerCall THEN NewFetcher
    ELSE IF t = 0 THEN SharedFetcher
    ELSE th_local[t]

\* The Fetcher a thread calls head_metadata or fetch_binary on.
FetcherOf(t) ==
    IF PerCall THEN NewFetcher
    ELSE IF t = 0 THEN SharedFetcher
    ELSE th_local[t]

\* A thread takes the next item and enters a request on its Fetcher.
OwTake(t) ==
    /\ th_pc = "run"
    /\ t \in Active
    /\ th_state[t] = "idle"
    /\ th_todo > 0
    /\ th_todo' = th_todo - 1
    /\ th_state' = [th_state EXCEPT ![t] = "busy"]
    /\ th_use' = [th_use EXCEPT ![t] = FetcherOf(t)]
    /\ IF PerCall
       THEN /\ fetchers_made' = fetchers_made + 1
            /\ fetchers_open' = fetchers_open \cup {NewFetcher}
       ELSE UNCHANGED <<fetchers_made, fetchers_open>>
    /\ UNCHANGED <<notOwn, th_site, th_browser, th_requested, th_n, th_pc, th_local,
                   th_raised>>

\* Mutant of OwDone: the Fetcher made for the call is left open.
OwDone_open(t) ==
    /\ th_pc = "run"
    /\ th_state[t] = "busy"
    /\ \E raised \in BOOLEAN :
          /\ th_raised' = (th_raised \/ raised)
          /\ th_pc' = IF raised /\ th_site = "map_page" /\ PoolSize = 0
                      THEN "raised" ELSE th_pc
    /\ th_use' = [th_use EXCEPT ![t] = 0]
    /\ th_state' = [th_state EXCEPT ![t] = "idle"]
    /\ UNCHANGED <<notOwn, th_site, th_browser, th_requested, th_n, th_todo,
                   th_local, fetchers_made, fetchers_open>>

\* The request returns or raises; "finally: f.close()" of head_one_image and
\* the end of "with fetcher_context() as f" close a Fetcher made for the
\* call.  An exception leaves map_page when the HEADs run in its own thread;
\* the download loops catch it and go on.
OwDone(t) ==
    /\ th_pc = "run"
    /\ th_state[t] = "busy"
    /\ \E raised \in BOOLEAN :
          /\ th_raised' = (th_raised \/ raised)
          /\ th_pc' = IF raised /\ th_site = "map_page" /\ PoolSize = 0
                      THEN "raised" ELSE th_pc
    /\ th_use' = [th_use EXCEPT ![t] = 0]
    /\ th_state' = [th_state EXCEPT ![t] = "idle"]
    /\ fetchers_open' = IF PerCall THEN fetchers_open \ {th_use[t]}
                        ELSE fetchers_open
    /\ UNCHANGED <<notOwn, th_site, th_browser, th_requested, th_n, th_todo,
                   th_local, fetchers_made>>

\* A crawl worker gets its sentinel: finally: fetcher.close().
OwExit(t) ==
    /\ th_pc = "run"
    /\ th_site = "crawl"
    /\ t \in Active
    /\ th_state[t] = "idle"
    /\ th_todo = 0
    /\ th_state' = [th_state EXCEPT ![t] = "exited"]
    /\ fetchers_open' = fetchers_open \ {th_local[t]}
    /\ UNCHANGED <<notOwn, th_site, th_browser, th_requested, th_n, th_todo, th_pc,
                   th_use, th_local, fetchers_made, th_raised>>

\* The pool has shut down (every thread is through) or the loop is over;
\* scrape_page closes what its threads spawned: for f in _fetchers_to_close.
OwReturn ==
    /\ th_pc = "run"
    /\ th_todo = 0
    /\ \A t \in Active :
          th_state[t] = (IF th_site = "crawl" THEN "exited" ELSE "idle")
    /\ fetchers_open' = IF th_site = "scrape_page"
                        THEN fetchers_open \ {th_local[t] : t \in Active}
                        ELSE fetchers_open
    /\ th_pc' = IF th_site = "map_page" /\ th_raised THEN "raised" ELSE "returned"
    /\ UNCHANGED <<notOwn, th_site, th_browser, th_requested, th_n, th_todo,
                   th_state, th_use, th_local, fetchers_made, th_raised>>

OwnNext ==
    \/ \E t \in Threads : OwStart(t)
    \/ \E t \in Threads : OwTake(t)
    \/ \E t \in Threads : OwDone(t)
    \/ \E t \in Threads : OwExit(t)
    \/ OwReturn

OwnSpec == OwnInit /\ [][OwnNext]_vars

\* C31: no two threads are inside a method of the same Fetcher at the same
\* time; the Fetcher the caller passed in is used only by the calling thread
\* and only when there is no pool; a Fetcher in use has not been closed.
C31_SingleOwner ==
    /\ \A t, u \in Threads :
          (t # u /\ th_use[t] # 0) => th_use[t] # th_use[u]
    /\ \A t \in Threads :
          th_use[t] = SharedFetcher => (t = 0 /\ PoolSize = 0)
    /\ \A t \in Threads :
          th_use[t] \notin {0, SharedFetcher} => th_use[t] \in fetchers_open

\* Two HEAD workers of map_page are inside head_metadata at the same time.
C31_Witness ==
    /\ th_site = "map_page"
    /\ th_state[1] = "busy" /\ th_state[2] = "busy"
    /\ th_use[1] # th_use[2]

(***************************************************************************)
(* The progress events of one scrape_assets call.  result.text is absent,  *)
(* new (no file, no manifest entry), on disk, or in the manifest only.     *)
(***************************************************************************)
ProgInit ==
    /\ CrawlIdle
    /\ FetchIdle
    /\ AssetIdle
    /\ IterIdle
    /\ MainIdle
    /\ RobotsIdle
    /\ EwIdle
    /\ MapIdle
    /\ CollectIdle
    /\ RefIdle
    /\ OwnIdle
    /\ PathIdle
    /\ SchemaIdle
    /\ pg_pc = "text"
    /\ pg_text \in {"none", "new", "on_disk", "in_map"}
    /\ pg_work \in 0..MaxProgItems
    /\ pg_cb \in BOOLEAN
    /\ pg_cache = "unset"
    /\ pg_done = 0
    /\ pg_events = << >>

notProg == <<oldVars, mainVars, robotsVars, workerVars27, mapVars, collectVars,
             refVars, ownVars,
            pathVars,
            schemaVars>>

Event(kind, n) == [kind |-> kind, n |-> n]

\* progress_callback(msg), when a callback was given
Emit(kind, n) == IF pg_cb THEN Append(pg_events, Event(kind, n)) ELSE pg_events

\* if result.text: the text is recorded, or written and reported.
PgText ==
    /\ pg_pc = "text"
    /\ pg_cache' = IF pg_text = "none" THEN "unset"
                   ELSE IF pg_text = "on_disk" THEN "yes" ELSE "no"
    /\ pg_events' = IF pg_text = "new" THEN Emit("text", 0) ELSE pg_events
    /\ pg_pc' = "total"
    /\ UNCHANGED <<notProg, pg_text, pg_work, pg_cb, pg_done>>

\* n_text = 1 if result.text and not _exists(...); the answer of _exists is
\* the cached one, from before the text was written.
total_assets ==
    (IF pg_text # "none" /\ pg_cache = "no" THEN 1 ELSE 0) + pg_work

\* if progress_callback and total_assets > 0: progress_callback(("total", n))
PgTotal ==
    /\ pg_pc = "total"
    /\ pg_events' = IF total_assets > 0 THEN Emit("total", total_assets)
                    ELSE pg_events
    /\ pg_pc' = "work"
    /\ UNCHANGED <<notProg, pg_text, pg_work, pg_cb, pg_cache, pg_done>>

\* One download is through (in the loop, or as a future that completed):
\* if ok and progress_callback: progress_callback("asset"); done_count += 1
PgItem ==
    /\ pg_pc = "work"
    /\ pg_done < pg_work
    /\ \E ok \in BOOLEAN :
          pg_events' = IF ok THEN Emit("asset", 0) ELSE pg_events
    /\ pg_done' = pg_done + 1
    /\ UNCHANGED <<notProg, pg_pc, pg_text, pg_work, pg_cb, pg_cache>>

PgReturn ==
    /\ pg_pc = "work"
    /\ pg_done = pg_work
    /\ pg_pc' = "returned"
    /\ UNCHANGED <<notProg, pg_text, pg_work, pg_cb, pg_cache, pg_done, pg_events>>

ProgNext == PgText \/ PgTotal \/ PgItem \/ PgReturn

ProgSpec == ProgInit /\ [][ProgNext]_vars

Totals == {i \in DOMAIN pg_events : pg_events[i].kind = "total"}

Completions == DOMAIN pg_events \ Totals

\* C32: the callback receives ("total", n) at most once and before every
\* per-completion event, and never more than n per-completion events.
C32_TotalFirst ==
    /\ Cardinality(Totals) <= 1
    /\ \A i \in Totals : \A j \in Completions : i < j
    /\ \A i \in Totals : Cardinality(Completions) <= pg_events[i].n

(***************************************************************************)
(* storage.py: the path of an asset below out_dir.  A string is a sequence *)
(* of characters: "a" is a letter, " " any character outside [\w.-], and   *)
(* "image", "full", "7", "pdf" and the like are whole words.                *)
(***************************************************************************)
Letters == {"a", ".", "_", " "}

RECURSIVE Strings(_)
Strings(n) ==
    IF n = 0 THEN {<< >>}
    ELSE LET shorter == Strings(n - 1)
         IN  shorter \cup {Append(s, c) : s \in {t \in shorter : Len(t) = n - 1},
                                          c \in Letters}

\* The segments between two slashes: p for p in path.split("/") if p
Segments == (Strings(MaxSegLen) \ {<< >>}) \cup {<<"image">>, <<"full">>, <<"7">>}

RECURSIVE PartLists(_)
PartLists(n) ==
    IF n = 0 THEN {<< >>}
    ELSE LET shorter == PartLists(n - 1)
         IN  shorter \cup {Append(s, c) : s \in {t \in shorter : Len(t) = n - 1},
                                          c \in Segments}

SITE == <<"a", ".", "a">>

PathInit ==
    /\ CrawlIdle
    /\ FetchIdle
    /\ AssetIdle
    /\ IterIdle
    /\ MainIdle
    /\ RobotsIdle
    /\ EwIdle
    /\ MapIdle
    /\ CollectIdle
    /\ RefIdle
    /\ OwnIdle
    /\ ProgIdle
    /\ SchemaIdle
    /\ px_pc = "call"
    /\ \/ px_netloc \in Strings(MaxSegLen) /\ px_parts = <<<<"a">>>>
       \/ px_netloc = SITE /\ px_parts \in PartLists(MaxSegments)
    /\ px_kind \in {"pdf", "image", "text"}
    /\ px_ct \in (IF px_kind = "image" THEN {"None", "image/jpeg"} ELSE {"None"})
    /\ px_exists \in BOOLEAN
    /\ px_out = << >>

notPath == <<oldVars, mainVars, robotsVars, workerVars27, mapVars, collectVars,
             refVars, ownVars, progVars,
            schemaVars>>

\* re.sub(r"[^\w.-]", "_", s)
Sub(s) == [i \in DOMAIN s |-> IF s[i] = " " THEN "_" ELSE s[i]]

RECURSIVE LStrip(_)
LStrip(s) == IF s # << >> /\ Head(s) = "_" THEN LStrip(Tail(s)) ELSE s

RECURSIVE RStrip(_)
RStrip(s) ==
    IF s # << >> /\ s[Len(s)] = "_" THEN RStrip(SubSeq(s, 1, Len(s) - 1)) ELSE s

\* s.strip("_")
Strip(s) == RStrip(LStrip(s))

EndsWith(s, tail) ==
    Len(s) >= Len(tail) /\ SubSeq(s, Len(s) - Len(tail) + 1, Len(s)) = tail

HasDot(s) == \E i \in DOMAIN s : s[i] = "."

sanitize_domain(netloc_) ==
    LET domain == Sub(IF netloc_ = << >> THEN <<"unknown">> ELSE netloc_)
    IN  IF domain = << >> THEN <<"unknown">> ELSE domain

\* "/image/" in path_lower, "/full/" in path_lower: a segment with a slash
\* after it.
InPath(parts, word) == \E i \in 1..(Len(parts) - 1) : parts[i] = <<word>>

\* parts[-1] of an empty list raises IndexError.
CanName(parts) == parts # << >>

sanitize_basename(parts, default_ext) ==
    LET last == parts[Len(parts)]
        idx == CHOOSE i \in DOMAIN parts :
                  /\ parts[i] = <<"image">>
                  /\ \A j \in 1..(i - 1) : parts[j] # <<"image">>
        name0 == IF InPath(parts, "image") /\ InPath(parts, "full") /\ Len(parts) >= 2
                 THEN IF idx + 1 <= Len(parts) /\ parts[idx + 1] = <<"7">>
                      THEN parts[idx + 1] \o <<"_">> \o last
                      ELSE last
                 ELSE last
        name1 == Strip(Sub(name0))
        name == IF name1 = << >> THEN <<"file">> ELSE name1
    IN  IF default_ext # "" /\ ~(EndsWith(name, <<".", default_ext>>) \/ HasDot(name))
        THEN name \o <<".", default_ext>>
        ELSE name

RECURSIVE JoinWith(_, _)
JoinWith(parts, sep) ==
    IF parts = << >> THEN << >>
    ELSE IF Len(parts) = 1 THEN parts[1]
    ELSE parts[1] \o <<sep>> \o JoinWith(Tail(parts), sep)

slug_from_url(parts) ==
    LET slug0 == IF parts # << >> THEN JoinWith(parts, "_") ELSE <<"index">>
        slug == Strip(Sub(slug0))
    IN  IF slug = << >> THEN <<"index">> ELSE slug

_path_for_pdf_base(domain, parts) ==
    <<domain, <<"pdfs">>, sanitize_basename(parts, "pdf")>>

_path_for_image_base(domain, parts, content_type) ==
    LET ext == IF content_type = "image/jpeg" THEN "jpg" ELSE "bin"
        base0 == sanitize_basename(parts, ext)
        base == IF ~EndsWith(base0, <<".", ext>>) /\ ~HasDot(base0)
                THEN base0 \o <<".", ext>> ELSE base0
    IN  <<domain, <<"images">>, base>>

_path_for_text_base(domain, parts) ==
    <<domain, <<"texts">>, slug_from_url(parts) \o <<".", "txt">>>>

\* pathlib: out_dir / domain / "pdfs" / base drops a component ".".
PurePath(components) == SelectSeq(components, LAMBDA c : c # <<".">>)

\* PurePath.suffix and PurePath.stem of the last component.
LastDot(name) ==
    IF HasDot(name) THEN CHOOSE i \in DOMAIN name :
                            name[i] = "." /\ \A j \in (i + 1)..Len(name) : name[j] # "."
    ELSE 0

PathSuffix(name) ==
    IF 1 < LastDot(name) /\ LastDot(name) < Len(name)
    THEN SubSeq(name, LastDot(name), Len(name)) ELSE << >>

PathStem(name) == SubSeq(name, 1, Len(name) - Len(PathSuffix(name)))

\* _ensure_unique: parent / f"{stem}_{n}{ext}" when the path exists
EnsureUnique(path, exists) ==
    IF ~exists \/ path = << >> THEN path
    ELSE LET name == path[Len(path)]
         IN  [path EXCEPT ![Len(path)] =
                 PathStem(name) \o <<"_", "1">> \o PathSuffix(name)]

PathBase ==
    LET domain == sanitize_domain(px_netloc)
    IN  IF px_kind = "pdf" THEN _path_for_pdf_base(domain, px_parts)
        ELSE IF px_kind = "image" THEN _path_for_image_base(domain, px_parts, px_ct)
        ELSE _path_for_text_base(domain, px_parts)

\* path_for_pdf, path_for_image, path_for_text
PxCall ==
    /\ px_pc = "call"
    /\ IF px_kind # "text" /\ ~CanName(px_parts)
       THEN /\ px_pc' = "raised"
            /\ UNCHANGED px_out
       ELSE /\ px_pc' = "returned"
            /\ px_out' = EnsureUnique(PurePath(PathBase), px_exists)
    /\ UNCHANGED <<notPath, px_netloc, px_parts, px_kind, px_ct, px_exists>>

PathNext == PxCall

PathSpec == PathInit /\ [][PathNext]_vars

Folder(kind) ==
    IF kind = "pdf" THEN <<"pdfs">>
    ELSE IF kind = "image" THEN <<"images">> ELSE <<"texts">>

SafeName(name) ==
    /\ name \notin {<< >>, <<".">>, <<".", ".">>}
    /\ \A i \in DOMAIN name : name[i] # " "

\* C33: the path returned is out_dir / host slug / folder of the kind /
\* basename, where neither the host slug nor the basename is empty, "." or
\* ".." or holds a character outside [\w.-] (a path separator is one).
C33_InsideOutDir ==
    px_pc = "returned" =>
        /\ Len(px_out) = 3
        /\ SafeName(px_out[1])
        /\ px_out[2] = Folder(px_kind)
        /\ SafeName(px_out[3])

\* C34: for the same tasks, requested count and backend, scrape_page and
\* scrape_assets choose the same number of download threads.
C34_SameParallelism ==
    (ew_out # -1 /\ ew_page # -1 /\ ew_work # << >>) => ew_page = ew_out

\* The fetch_binary calls made for one item of the work list, in order.
CallsOf(i) == tasks[i].calls

\* The item was taken up and brought to its end: recorded, fetched or failed.
TakenUp(a) ==
    \/ urls_map[a.key] # NoPath
    \/ \E i \in DOMAIN tasks : tasks[i].key = a.key /\ tasks[i].st = "done"

\* The calls of every item follow the retry rule.
RetryRule ==
    \A i \in DOMAIN tasks :
        LET t == tasks[i]
        IN  /\ Len(CallsOf(i)) <= 2
            /\ Len(CallsOf(i)) >= 1 => CallsOf(i)[1].url = t.fetch
            /\ Len(CallsOf(i)) = 2 =>
                  /\ ~CallsOf(i)[1].ok
                  /\ t.ct # "application/pdf"
                  /\ t.fetch # t.key
                  /\ CallsOf(i)[2].url = t.key
            /\ t.ct = "application/pdf" => Len(CallsOf(i)) <= 1

\* When the page scrape is over, every asset of the page was taken up.
NoAssetLeftOut ==
    as_pc \in {"returned", "raised"} => \A a \in Range(as_assets) : TakenUp(a)

\* C35: for one asset fetch_binary is called at most twice: with the fetch
\* URL and, only when that call failed, the asset is an image and the fetch
\* URL differs from the original URL, once more with the original URL; a PDF
\* is not retried; and the failure of one asset does not keep the remaining
\* assets of the page from being taken up.
C35_RetryOnceAndGoOn == RetryRule /\ NoAssetLeftOut

(***************************************************************************)
(* schema.py: detect_image_schemas.  A page is its URL and the set of the  *)
(* things its HTML holds; the empty set is the empty string.  A confidence *)
(* is written in hundredths: 95 is 0.95.                                   *)
(***************************************************************************)
U_PLAIN == "http://site.test/page"
U_NYPL == "https://digitalcollections.nypl.org/items/0a1b2c3d-0000-1111-2222-333344445555"
U_NYPL_WWW == "http://www.digitalcollections.nypl.org/items/0a1b2c3d-0000-1111-2222-333344445555"
U_CDM == "https://cdm.test/digital/collection/maps/id/7"
U_CDM_UPPER == "https://cdm.test/DIGITAL/Collection/maps/id/7"
U_NYPL_CDM == "https://digitalcollections.nypl.org/items/0a1b2c3d-0000-1111-2222-333344445555/digital/collection/maps/id/7"

SchemaURLs == {U_PLAIN, U_NYPL, U_NYPL_WWW, U_CDM, U_CDM_UPPER, U_NYPL_CDM}

\* <img src=".../digital/iiif/2/maps:7/full/full/0/default.jpg">,
\* <a href="https://iiif.test/7/manifest.json">,
\* <iframe src="https://viewer.test/uv.html#?manifest=https://iiif.test/7/manifest.json">,
\* <img src="/cover.jpg">
HtmlParts == {"iiif_image", "manifest_link", "manifest_in_viewer", "img"}

\* _NYPL_ITEMS_RE.match(url)
NyplItem(url) == url \in {U_NYPL, U_NYPL_WWW, U_NYPL_CDM}

\* _CONTENTDM_ITEM_RE.search(url)
ContentdmItem(url) == url \in {U_CDM, U_CDM_UPPER, U_NYPL_CDM}

\* _IIIF_IMAGE_API_RE.search(html_str)
HasImageApiURL(html) == "iiif_image" \in html

\* find_iiif_manifest_urls: the manifest.json URLs of links and of the
\* manifest= parameter of a viewer URL.
find_iiif_manifest_urls(html) == html \cap {"manifest_link", "manifest_in_viewer"}

Detection(schema, confidence) == [schema |-> schema, confidence |-> confidence]

\* The results in the order of the appends: NYPL, CONTENTdm, IIIF manifest,
\* generic HTML.
detect_image_schemas(url, html) ==
    LET nypl == IF NyplItem(url) THEN <<Detection("nypl", 100)>> ELSE << >>
        contentdm == IF ContentdmItem(url) THEN <<Detection("contentdm", 95)>>
                     ELSE IF html # {} /\ HasImageApiURL(html)
                          THEN <<Detection("contentdm", 80)>>
                          ELSE << >>
        iiif == IF ~NyplItem(url) /\ find_iiif_manifest_urls(html) # {}
                THEN <<Detection("iiif_manifest", 90)>>
                ELSE << >>
    IN  nypl \o contentdm \o iiif \o <<Detection("generic_html", 50)>>

SchemaInit ==
    /\ CrawlIdle
    /\ FetchIdle
    /\ AssetIdle
    /\ IterIdle
    /\ MainIdle
    /\ RobotsIdle
    /\ EwIdle
    /\ MapIdle
    /\ CollectIdle
    /\ RefIdle
    /\ OwnIdle
    /\ ProgIdle
    /\ PathIdle
    /\ sd_pc = "call"
    /\ sd_url \in SchemaURLs
    /\ sd_html \in SUBSET HtmlParts
    /\ sd_results = << >>

notSchema == <<oldVars, mainVars, robotsVars, workerVars27, mapVars, collectVars,
               refVars, ownVars, progVars, pathVars>>

SdCall ==
    /\ sd_pc = "call"
    /\ sd_results' = detect_image_schemas(sd_url, sd_html)
    /\ sd_pc' = "returned"
    /\ UNCHANGED <<notSchema, sd_url, sd_html>>

SchemaNext == SdCall

SchemaSpec == SchemaInit /\ [][SchemaNext]_vars

NonIncreasing(results) ==
    \A i \in 1..(Len(results) - 1) : results[i].confidence >= results[i + 1].confidence

\* generic-HTML is in the list once, at its end, with confidence 0.5.
GenericLast ==
    /\ sd_results # << >>
    /\ sd_results[Len(sd_results)] = Detection("generic_html", 50)
    /\ \A i \in 1..(Len(sd_results) - 1) : sd_results[i].schema # "generic_html"

\* C36: the list detect_image_schemas returns is in order of non-increasing
\* confidence, and generic-HTML (0.5) is in it and is its last entry.
C36_ByConfidence ==
    sd_pc = "returned" => NonIncreasing(sd_results) /\ GenericLast

(***************************************************************************)
(* The three locks of run_crawl: seen_lock guards the visit set,            *)
(* pending_lock the pending counter, manifest_lock the page scrape.        *)
(***************************************************************************)
LocksHeld(w) ==
    {l \in {"visit", "pending", "manifest"} :
        \/ l = "visit" /\ seen_lock = w
        \/ l = "pending" /\ pending_lock = w
        \/ l = "manifest" /\ manifest_lock = w}

\* The worker is inside can_fetch (robots.txt) or inside scrape_page.
InNetworkCall(w) == pc[w] \in {"process", "scrape"}

\* The worker is blocked at "with <lock>:" on the lock named.
WaitsFor(w) ==
    IF pc[w] \in {"seen_acq", "lseen_acq"} THEN seen_lock
    ELSE IF pc[w] \in {"dec_acq", "inc_acq"} THEN pending_lock
    ELSE IF pc[w] = "mf_acq" THEN manifest_lock
    ELSE NoOwner

\* A step in which w takes a lock: the visit lock with no lock held, the
\* pending lock without the manifest lock held, the manifest lock at any time.
AcquiresInOrder(w) ==
    /\ (seen_lock # w /\ seen_lock' = w) => LocksHeld(w) = {}
    /\ (pending_lock # w /\ pending_lock' = w) => "manifest" \notin LocksHeld(w)

\* C37: a worker takes the locks in the order visit, pending, manifest; it
\* holds at most one lock while it is in a network call; it holds no lock
\* when it is back at work_queue.get() or leaves, whether or not the page
\* scrape raised; and a worker waiting for a lock waits for a worker that is
\* not itself waiting for a lock, so the workers never deadlock on the locks.
C37_LockDiscipline ==
    /\ [][\A w \in Pool : AcquiresInOrder(w)]_vars
    /\ [](\A w \in Pool : InNetworkCall(w) => Cardinality(LocksHeld(w)) <= 1)
    /\ [](\A w \in Pool : pc[w] \in {"get", "close", "done"} => LocksHeld(w) = {})
    /\ [](\A w \in Pool : WaitsFor(w) # NoOwner =>
              WaitsFor(w) # w /\ WaitsFor(WaitsFor(w)) = NoOwner)

\* A parallel run has returned after the scrape of its page raised; the
\* three locks are free.
C37_Witness ==
    /\ Parallel /\ ctl = "returned"
    /\ Len(scraped) = 1 /\ scraped[1].url \in failing
    /\ seen_lock = NoOwner /\ pending_lock = NoOwner /\ manifest_lock = NoOwner

\* C38: when the fan-out has returned or raised, every Fetcher made for a
\* crawl worker, spawned for a pool thread or made for one HEAD or download
\* has been closed, also when requests raised on the way.
C38_AllClosed ==
    th_pc \in {"returned", "raised"} => fetchers_open = {}

\* A crawl run with two workers has returned after a page scrape raised; each
\* worker had made a Fetcher.
C38_Witness ==
    /\ th_site = "crawl" /\ th_pc = "returned"
    /\ th_raised
    /\ fetchers_made = 2

\* The worker is inside scrape_page.
InScrapePage(w) == pc[w] = "scrape"

\* C39: in a parallel crawl at most one worker is inside scrape_page at a
\* time, whatever the hosts of the pages: the worker inside it holds the one
\* manifest lock of the run.
C39_OneScrapeAtATime ==
    /\ \A v, w \in Pool : (InScrapePage(v) /\ InScrapePage(w)) => v = w
    /\ \A w \in Pool : InScrapePage(w) => manifest_lock = w

\* A worker of a run with three workers is inside scrape_page and holds the
\* manifest lock; the other workers wait at work_queue.get().
C39_Witness ==
    /\ Parallel /\ ctl = "crawl" /\ workers = 3
    /\ \E w \in Pool :
          /\ InScrapePage(w) /\ manifest_lock = w
          /\ \A v \in Pool \ {w} : pc[v] = "get"

\* C40: a sequential crawl terminates on every site of the model, link
\* cycles and pages linking to themselves included: the frontier queue
\* becomes empty and the crawl ends.
C40_SequentialTerminates ==
    Sequential => <>(ctl = "finished" /\ q = << >>)

\* The frontier queue of a sequential run holds a URL twice that has not
\* been scraped yet, on the site with link cycles.
C40_Witness ==
    /\ Sequential /\ ctl = "crawl" /\ site = SiteCycle
    /\ \E i, j \in 1..Len(q) :
          /\ i < j /\ q[i].url = q[j].url
          /\ q[i].url \notin seen
          /\ q[i].depth <= max_depth

====
